---- MODULE Spec2Model ----
(***************************************************************************)
(* A model of the Exline interpreter (src/src/interpreter.rs) and parser   *)
(* (src/src/parser.rs).                                                    *)
(*                                                                         *)
(* The evaluator is a tree walker; it is modelled by recursive operators   *)
(* that thread the Environment, the standard output and a log of call      *)
(* events through the walk, exactly in the order the Rust code does.       *)
(* Strings are sequences of one-character strings, so that rendering,      *)
(* concatenation and emptiness are computed and not assumed.               *)
(***************************************************************************)
EXTENDS Integers, Sequences, FiniteSets, TLC

VARIABLES
    environment,      \* Interpreter.environment: the four tables
    stdout,           \* the lines println! has written so far
    status,           \* "running", "error" (interpret returned Err), "panic"
    executed,         \* number of top-level statements interpret has run
    overflow_checks,  \* build profile: TRUE = arithmetic overflow panics
    last,             \* record of the last top-level statement executed
    opcall,           \* last direct application of a binary operator helper
    parsed            \* last run of Parser::parse: its tokens and its result

vars == <<environment, stdout, status, executed, overflow_checks, last, opcall, parsed>>

----------------------------------------------------------------------------
(* Bounds of the model *)

\* top-level statements one program may hold
MaxStmts == 3
\* nesting of user calls the host stack is given before it overflows
MaxDepth == 4
\* width of the Integer kind in the model (the code's i64, scaled down)
IntBits == 5

IntMin == -(2 ^ (IntBits - 1))
IntMax == (2 ^ (IntBits - 1)) - 1

----------------------------------------------------------------------------
(* parser.rs: Type, Parameter, ClassField, Method, Expression, Statement *)

TInt == [tag |-> "Int"]
TString == [tag |-> "String"]
TVoid == [tag |-> "Void"]
TCustom(c) == [tag |-> "Custom", name |-> c]

Parameter(n, t) == [name |-> n, param_type |-> t]
ClassField(n, t) == [name |-> n, field_type |-> t]
Method(n, ps, rt, b) == [name |-> n, parameters |-> ps, return_type |-> rt, body |-> b]

EInteger(n) == [e |-> "Integer", n |-> n]
EString(s) == [e |-> "String", s |-> s]
EIdentifier(n) == [e |-> "Identifier", name |-> n]
EBinary(l, op, r) == [e |-> "Binary", left |-> l, operator |-> op, right |-> r]
EFunctionCall(n, args) == [e |-> "FunctionCall", name |-> n, arguments |-> args]
EMethodCall(o, m, args) == [e |-> "MethodCall", object |-> o, method |-> m, arguments |-> args]
EFieldAccess(o, f) == [e |-> "FieldAccess", object |-> o, field |-> f]
EObjectCreation(c) == [e |-> "ObjectCreation", class_name |-> c]
EStringInterpolation(parts) == [e |-> "StringInterpolation", parts |-> parts]

\* Option<T> is a sequence of length 0 (None) or 1 (Some)
None == <<>>
Some(x) == <<x>>

SVariableDeclaration(n, t, v) ==
    [s |-> "VariableDeclaration", name |-> n, var_type |-> t, value |-> v]
SFunctionDefinition(n, ps, rt, b) ==
    [s |-> "FunctionDefinition", name |-> n, parameters |-> ps, return_type |-> rt, body |-> b]
SIf(c, t, el) ==
    [s |-> "If", condition |-> c, then_branch |-> t, else_branch |-> el]
SClassDefinition(n, impl, fs, ms) ==
    [s |-> "ClassDefinition", name |-> n, implements |-> impl, fields |-> fs, methods |-> ms]
SInterfaceDefinition(n, ms) ==
    [s |-> "InterfaceDefinition", name |-> n, methods |-> ms]
SAssignment(t, v) == [s |-> "Assignment", target |-> t, value |-> v]
SExpression(x) == [s |-> "Expression", expr |-> x]

----------------------------------------------------------------------------
(* interpreter.rs: Value *)

VInteger(n) == [kind |-> "Integer", n |-> n]
VString(s) == [kind |-> "String", s |-> s]
VFunction(ps, rt, b) == [kind |-> "Function", parameters |-> ps, return_type |-> rt, body |-> b]
VObject(c, fs) == [kind |-> "Object", class_name |-> c, fields |-> fs]
VVoid == [kind |-> "Void"]

\* text of a name, character by character; every other name of the model is
\* one character long
Chars(name) ==
    CASE name = "this" -> <<"t", "h", "i", "s">>
      [] name = "value" -> <<"v", "a", "l", "u", "e">>
      [] OTHER -> <<name>>

Digit(d) == SubSeq(<<"0", "1", "2", "3", "4", "5", "6", "7", "8", "9">>, d + 1, d + 1)

RECURSIVE Digits(_)
Digits(n) == IF n < 10 THEN Digit(n) ELSE Digits(n \div 10) \o Digit(n % 10)

\* i64::to_string
IntToString(n) == IF n < 0 THEN <<"-">> \o Digits(-n) ELSE Digits(n)

type_name(v) ==
    CASE v.kind = "Integer" -> "Int"
      [] v.kind = "String" -> "String"
      [] v.kind = "Function" -> "Function"
      [] v.kind = "Object" -> "Object"
      [] v.kind = "Void" -> "Void"

to_string(v) ==
    CASE v.kind = "Integer" -> IntToString(v.n)
      [] v.kind = "String" -> v.s
      [] v.kind = "Function" -> <<"<", "f", "u", "n", "c", "t", "i", "o", "n", ">">>
      [] v.kind = "Object" -> <<"<">> \o Chars(v.class_name) \o <<" ", "o", "b", "j", "e", "c", "t", ">">>
      [] v.kind = "Void" -> <<"v", "o", "i", "d">>

----------------------------------------------------------------------------
(* interpreter.rs: Environment *)

EmptyMap == [x \in {} |-> 0]

\* HashMap::insert
Insert(map, k, v) == [x \in (DOMAIN map) \cup {k} |-> IF x = k THEN v ELSE map[x]]

PrintBuiltin == VFunction(<<Parameter("value", TString)>>, TString, <<>>)

EnvironmentNew ==
    [variables |-> EmptyMap,
     functions |-> Insert(EmptyMap, "print", PrintBuiltin),
     classes |-> EmptyMap,
     interfaces |-> EmptyMap]

----------------------------------------------------------------------------
(* Runtime errors: the messages of interpreter.rs, without their arguments *)

TypeMismatch == "Type mismatch"
ArgumentTypeMismatch == "Argument type mismatch for parameter"
UnsupportedAssignmentTarget == "Only simple variable assignments are supported currently"
UndefinedVariable == "Undefined variable"
UndefinedFunction == "Undefined function"
PrintArity == "print() takes exactly one argument"
FunctionArity == "Function expects arguments"
MethodArity == "Method expects arguments"
MethodNotFound == "Method not found in class"
ClassNotFound == "Class not found"
MethodOnNonObject == "Cannot call method on non-object value"
FieldOnNonObject == "Cannot access field on non-object value"
FieldNotFound == "Field not found"
CannotAdd == "Cannot add"
CannotSubtract == "Cannot subtract"
CannotMultiply == "Cannot multiply"
CannotDivide == "Cannot divide"
DivisionByZero == "Division by zero"

(* Host failures (Rust panics and stack exhaustion): not error values *)
ArithmeticOverflow == "attempt to compute with overflow"
SliceIndexOrder == "slice index starts after its end"
StackOverflow == "stack overflow"

\* Result<Value, String> (and Result<Option<Value>, String> for statements),
\* together with the interpreter as the operation left it
Ok(v, m) == [st |-> "ok", val |-> v, err |-> "", m |-> m]
Err(e, m) == [st |-> "err", val |-> VVoid, err |-> e, m |-> m]
Panic(e, m) == [st |-> "panic", val |-> VVoid, err |-> e, m |-> m]

\* the outcome of a helper that does not touch the interpreter
OkV(v) == [st |-> "ok", val |-> v, err |-> ""]
ErrV(e) == [st |-> "err", val |-> VVoid, err |-> e]
PanicV(e) == [st |-> "panic", val |-> VVoid, err |-> e]

----------------------------------------------------------------------------
(* interpreter.rs: the binary operator helpers *)

Wrap(x) == ((x - IntMin) % (2 ^ IntBits)) + IntMin

\* the result of +, - and * on the machine integer: it panics on overflow
\* when the build checks overflow, and wraps otherwise
Arith(x) ==
    IF x >= IntMin /\ x <= IntMax THEN OkV(VInteger(x))
    ELSE IF overflow_checks THEN PanicV(ArithmeticOverflow)
    ELSE OkV(VInteger(Wrap(x)))

Abs(x) == IF x < 0 THEN -x ELSE x

\* Rust's integer division truncates toward zero
TruncDiv(a, b) ==
    IF (a < 0) = (b < 0) THEN Abs(a) \div Abs(b) ELSE -(Abs(a) \div Abs(b))

add_values(left, right) ==
    IF left.kind = "Integer" /\ right.kind = "Integer" THEN Arith(left.n + right.n)
    ELSE IF left.kind = "String" /\ right.kind = "String" THEN OkV(VString(left.s \o right.s))
    ELSE ErrV(CannotAdd)

subtract_values(left, right) ==
    IF left.kind = "Integer" /\ right.kind = "Integer" THEN Arith(left.n - right.n)
    ELSE ErrV(CannotSubtract)

multiply_values(left, right) ==
    IF left.kind = "Integer" /\ right.kind = "Integer" THEN Arith(left.n * right.n)
    ELSE ErrV(CannotMultiply)

\* divide_values without its test of the divisor: the host's division panics
divide_values_unchecked(left, right) ==
    IF left.kind = "Integer" /\ right.kind = "Integer"
    THEN IF right.n = 0 \/ (left.n = IntMin /\ right.n = -1) THEN PanicV(ArithmeticOverflow)
         ELSE OkV(VInteger(TruncDiv(left.n, right.n)))
    ELSE ErrV(CannotDivide)

divide_values(left, right) ==
    IF left.kind = "Integer" /\ right.kind = "Integer"
    THEN IF right.n = 0 THEN ErrV(DivisionByZero)
         ELSE IF left.n = IntMin /\ right.n = -1 THEN PanicV(ArithmeticOverflow)
         ELSE OkV(VInteger(TruncDiv(left.n, right.n)))
    ELSE ErrV(CannotDivide)

\* equal_values comparing the two values structurally (Value's PartialEq)
equal_values_structural(left, right) ==
    OkV(VInteger(IF left = right THEN 1 ELSE 0))

equal_values(left, right) ==
    LET result ==
            IF left.kind = "Integer" /\ right.kind = "Integer" THEN left.n = right.n
            ELSE IF left.kind = "String" /\ right.kind = "String" THEN left.s = right.s
            ELSE FALSE
    IN OkV(VInteger(IF result THEN 1 ELSE 0))

ApplyOperator(operator, left_val, right_val) ==
    CASE operator = "Add" -> add_values(left_val, right_val)
      [] operator = "Subtract" -> subtract_values(left_val, right_val)
      [] operator = "Multiply" -> multiply_values(left_val, right_val)
      [] operator = "Divide" -> divide_values(left_val, right_val)
      [] operator = "Equal" -> equal_values(left_val, right_val)

----------------------------------------------------------------------------
(* interpreter.rs: helpers of the evaluator *)

\* the element of a singleton set: The({ body : r \in {e} }) is body with r
\* the value of e
The(S) == CHOOSE x \in S : TRUE

\* TypeMatches taking any Object for a Custom type, whatever its class
TypeMatches_AnyObject(t, v) ==
    \/ t.tag = "Int" /\ v.kind = "Integer"
    \/ t.tag = "String" /\ v.kind = "String"
    \/ t.tag = "Void" /\ v.kind = "Void"
    \/ t.tag = "Custom" /\ v.kind = "Object"

\* the compatibility rule of a declared Type and a Value
TypeMatches(t, v) ==
    \/ t.tag = "Int" /\ v.kind = "Integer"
    \/ t.tag = "String" /\ v.kind = "String"
    \/ t.tag = "Void" /\ v.kind = "Void"
    \/ t.tag = "Custom" /\ v.kind = "Object" /\ t.name = v.class_name

\* the value a call returns when its body carries none, and the value of a
\* field of a new object
ZeroValue(t) ==
    CASE t.tag = "Int" -> VInteger(0)
      [] t.tag = "String" -> VString(<<>>)
      [] t.tag = "Void" -> VVoid
      [] t.tag = "Custom" -> VVoid

\* Truthy taking every Integer, 0 included, for true
Truthy_AnyInteger(v) ==
    CASE v.kind = "Integer" -> TRUE
      [] v.kind = "String" -> v.s # <<>>
      [] v.kind = "Function" -> TRUE
      [] v.kind = "Object" -> TRUE
      [] v.kind = "Void" -> FALSE

\* the truthiness of an If condition
Truthy(v) ==
    CASE v.kind = "Integer" -> v.n # 0
      [] v.kind = "String" -> v.s # <<>>
      [] v.kind = "Function" -> TRUE
      [] v.kind = "Object" -> TRUE
      [] v.kind = "Void" -> FALSE

\* Environment::define_variable on the interpreter m
define_variable(m, name, value) ==
    [m EXCEPT !.variables = Insert(@, name, value)]

define_function(m, name, value) ==
    [m EXCEPT !.functions = Insert(@, name, value)]

define_class(m, name, class_def) ==
    [m EXCEPT !.classes = Insert(@, name, class_def)]

define_interface(m, name, interface_def) ==
    [m EXCEPT !.interfaces = Insert(@, name, interface_def)]

\* println!
println(m, line) == [m EXCEPT !.out = Append(@, line)]

\* RestoreScope leaving the table as the callee left it
RestoreScope_Skipped(m, old_vars) == m

\* RestoreScope dropping the names the callee added, but keeping the values
\* it gave to the names of the snapshot
RestoreScope_KeepRebound(m, old_vars) ==
    [m EXCEPT !.variables = [x \in DOMAIN old_vars |->
                                IF x \in DOMAIN m.variables THEN m.variables[x] ELSE old_vars[x]]]

\* "Restore old scope": self.environment.variables = old_vars
RestoreScope(m, old_vars) == [m EXCEPT !.variables = old_vars]

\* the log of call exits: the table when the call expression began to be
\* evaluated (entry), when the call took its snapshot (pre), as the callee
\* left it (inner) and as the caller finds it (post)
\* and of what the call ran: the declared return type, the block of its body
\* (0 when the body did not run) and the value returned
LogCall(m, expression, entry_vars, old_vars, inner_vars, st, frame) ==
    [m EXCEPT !.calls = Append(@, [call |-> expression, entry |-> entry_vars,
                                   pre |-> old_vars, inner |-> inner_vars,
                                   post |-> m.variables, st |-> st, from |-> m.cur,
                                   return_type |-> frame.return_type,
                                   block |-> frame.block, val |-> frame.val])]

\* the log of statements: execute_statement entered and left, with the block
\* the statement belongs to (0 for the statements of the program) and, when
\* left, the tables and the output as they then are
LogEnter(m, statement) ==
    [m EXCEPT !.steps = Append(@, [ev |-> "enter", block |-> m.cur, statement |-> statement,
                                   variables |-> m.variables])]

LogExit(m, statement, block, r) ==
    [m EXCEPT !.steps = Append(@, [ev |-> "exit", block |-> block, statement |-> statement,
                                   st |-> r.st, err |-> r.err,
                                   carried |-> IF r.st = "ok" THEN r.val ELSE None,
                                   variables |-> m.variables, functions |-> m.functions,
                                   classes |-> m.classes, interfaces |-> m.interfaces,
                                   out |-> m.out])]

\* the log of blocks (bodies and If branches) left: the block, its statements,
\* how the loop over them ended and the value it carried
LogBlock(m, id, body, st, carried) ==
    [m EXCEPT !.blocks = Append(@, [id |-> id, body |-> body, st |-> st, carried |-> carried])]

\* the log of If statements: the condition's value and the branch taken
LogBranch(m, condition_value, branch) ==
    [m EXCEPT !.branches = Append(@, [cond |-> condition_value, branch |-> branch,
                                      in |-> m.cur, at |-> Len(m.steps),
                                      block |-> IF branch = "none" THEN 0 ELSE m.nblocks + 1])]

\* str::find of a pattern: the 0-based index of its first occurrence, or -1
Find(s, pat) ==
    LET hits == {i \in 0..(Len(s) - Len(pat)) : SubSeq(s, i + 1, i + Len(pat)) = pat}
    IN IF hits = {} THEN -1 ELSE CHOOSE i \in hits : \A j \in hits : i <= j

\* the fields of a new object: one insert per declared field, in order
RECURSIVE DefaultFields(_, _, _)
DefaultFields(fields_decl, i, fields) ==
    IF i > Len(fields_decl) THEN fields
    ELSE DefaultFields(fields_decl, i + 1,
                       Insert(fields, fields_decl[i].name, ZeroValue(fields_decl[i].field_type)))

\* NewObjectFields starting at the second declared field
NewObjectFields_SkipFirst(fields_decl) == DefaultFields(fields_decl, 2, EmptyMap)

\* "Initialize fields with default values"
NewObjectFields(fields_decl) == DefaultFields(fields_decl, 1, EmptyMap)

\* FindMethod selecting the last method of the class with the called name
FindMethod_Last(methods, method) ==
    LET hits == {i \in 1..Len(methods) : methods[i].name = method}
    IN IF hits = {} THEN 0 ELSE CHOOSE i \in hits : \A j \in hits : i >= j

\* the first method of the class with the called name: its index, or 0
FindMethod(methods, method) ==
    LET hits == {i \in 1..Len(methods) : methods[i].name = method}
    IN IF hits = {} THEN 0 ELSE CHOOSE i \in hits : \A j \in hits : i <= j

----------------------------------------------------------------------------
(* interpreter.rs: Interpreter::execute_statement and evaluate_expression  *)
(* m is the interpreter (the four tables, the output, and the logs of the   *)
(* calls, branches, statements and blocks) and d the number of nested user  *)
(* calls the host stack still has room for.                                *)

RECURSIVE evaluate_expression(_, _, _)
RECURSIVE execute_statement(_, _, _)
RECURSIVE ExecuteBlock(_, _, _, _)
RECURSIVE RunBlock(_, _, _)
RECURSIVE BindArguments(_, _, _, _, _)
RECURSIVE BindMethodArguments(_, _, _, _, _)

\* Expression::String: the "#{name}" replacement
EvaluateString(s, m) ==
    IF Find(s, <<"#", "{">>) >= 0
    THEN LET start == Find(s, <<"#", "{">>)
             end == Find(s, <<"}">>)
         IN IF end < 0 THEN Ok(VString(s), m)
            ELSE IF start + 2 > end THEN Panic(SliceIndexOrder, m)
            ELSE LET var_name == SubSeq(s, start + 3, end)
                     found == {v \in DOMAIN m.variables : Chars(v) = var_name}
                 IN IF found = {} THEN Ok(VString(s), m)
                    ELSE LET replacement == to_string(m.variables[CHOOSE v \in found : TRUE])
                         IN Ok(VString(SubSeq(s, 1, start) \o replacement
                                       \o SubSeq(s, end + 2, Len(s))), m)
    ELSE Ok(VString(s), m)

\* EvaluateBinary evaluating the right operand before the left one
EvaluateBinary_RightFirst(expression, m, d) ==
    The({ IF r.st # "ok" THEN r
          ELSE The({ IF l.st # "ok" THEN l
                     ELSE The({ [st |-> o.st, val |-> o.val, err |-> o.err, m |-> l.m]
                                : o \in {ApplyOperator(expression.operator, l.val, r.val)} })
                     : l \in {evaluate_expression(expression.left, r.m, d)} })
          : r \in {evaluate_expression(expression.right, m, d)} })

\* Expression::Binary: left, then right, then the operator
EvaluateBinary(expression, m, d) ==
    LET l == evaluate_expression(expression.left, m, d)
    IN IF l.st # "ok" THEN l
       ELSE LET r == evaluate_expression(expression.right, l.m, d)
            IN IF r.st # "ok" THEN r
               ELSE LET o == ApplyOperator(expression.operator, l.val, r.val)
                    IN [st |-> o.st, val |-> o.val, err |-> o.err, m |-> r.m]

\* print printing its first argument however many it is given
EvaluatePrint_FirstArgument(expression, m, d) ==
    IF Len(expression.arguments) = 0 THEN Err(PrintArity, m)
    ELSE LET value == evaluate_expression(expression.arguments[1], m, d)
         IN IF value.st # "ok" THEN value
            ELSE Ok(VString(<<>>), println(value.m, to_string(value.val)))

\* the built-in print
EvaluatePrint(expression, m, d) ==
    IF Len(expression.arguments) # 1 THEN Err(PrintArity, m)
    ELSE LET value == evaluate_expression(expression.arguments[1], m, d)
         IN IF value.st # "ok" THEN value
            ELSE Ok(VString(<<>>), println(value.m, to_string(value.val)))

\* BindArguments without the type check of the argument values
RECURSIVE BindArguments_Unchecked(_, _, _, _, _)
BindArguments_Unchecked(parameters, arguments, i, m, d) ==
    IF i > Len(parameters) THEN Ok(VVoid, m)
    ELSE The({ IF arg_value.st # "ok" THEN arg_value
               ELSE BindArguments_Unchecked(parameters, arguments, i + 1,
                        define_variable(arg_value.m, parameters[i].name, arg_value.val), d)
               : arg_value \in {evaluate_expression(arguments[i], m, d)} })

\* "Bind arguments to parameters" of a function call, from the i-th on
BindArguments(parameters, arguments, i, m, d) ==
    IF i > Len(parameters) THEN Ok(VVoid, m)
    ELSE LET arg_value == evaluate_expression(arguments[i], m, d)
         IN IF arg_value.st # "ok" THEN arg_value
            ELSE IF ~TypeMatches(parameters[i].param_type, arg_value.val)
                 THEN Err(ArgumentTypeMismatch, arg_value.m)
            ELSE BindArguments(parameters, arguments, i + 1,
                               define_variable(arg_value.m, parameters[i].name, arg_value.val), d)

\* "Bind arguments to parameters" of a method call, from the i-th on
BindMethodArguments(parameters, arguments, i, m, d) ==
    IF i > Len(parameters) THEN Ok(VVoid, m)
    ELSE LET arg_value == evaluate_expression(arguments[i], m, d)
         IN IF arg_value.st # "ok" THEN arg_value
            ELSE BindMethodArguments(parameters, arguments, i + 1,
                                     define_variable(arg_value.m, parameters[i].name, arg_value.val), d)

\* ExecuteBlock going on to the next statement after one that failed
RECURSIVE ExecuteBlock_PastErrors(_, _, _, _)
ExecuteBlock_PastErrors(body, i, m, d) ==
    IF i > Len(body) THEN Ok(None, m)
    ELSE The({ IF r.st = "ok" /\ r.val # None THEN r
               ELSE ExecuteBlock_PastErrors(body, i + 1, r.m, d)
               : r \in {execute_statement(body[i], m, d)} })

\* ExecuteBlock running every statement and keeping the last carried value
RECURSIVE ExecuteBlock_RunsToEnd(_, _, _, _)
ExecuteBlock_RunsToEnd(body, i, m, d) ==
    IF i > Len(body) THEN Ok(None, m)
    ELSE The({ IF r.st # "ok" \/ i = Len(body) THEN r
               ELSE The({ IF rest.st = "ok" /\ rest.val = None
                          THEN [rest EXCEPT !.val = r.val] ELSE rest
                          : rest \in {ExecuteBlock_RunsToEnd(body, i + 1, r.m, d)} })
               : r \in {execute_statement(body[i], m, d)} })

\* for stmt in body: the first carried value ends the loop, an error leaves it
ExecuteBlock(body, i, m, d) ==
    IF i > Len(body) THEN Ok(None, m)
    ELSE LET r == execute_statement(body[i], m, d)
         IN IF r.st # "ok" THEN r
            ELSE IF r.val # None THEN r
            ELSE ExecuteBlock(body, i + 1, r.m, d)

\* a loop over the statements of a block, as a numbered block of the log
RunBlock(body, m, d) ==
    The({ [ran EXCEPT !.m = LogBlock([ran.m EXCEPT !.cur = m.cur], m.nblocks + 1, body, ran.st,
                                     IF ran.st = "ok" THEN ran.val ELSE None)]
          : ran \in {ExecuteBlock(body, 1, [m EXCEPT !.nblocks = @ + 1, !.cur = m.nblocks + 1], d)} })

\* CallResult keeping the carried value only when it has the declared type
CallResult_Typed(return_type, carried) ==
    IF carried = None \/ ~TypeMatches(return_type, carried[1])
    THEN ZeroValue(return_type)
    ELSE carried[1]

\* let mut result = <zero of return_type>; the body loop replaces it by the
\* first carried value
CallResult(return_type, carried) ==
    IF carried = None THEN ZeroValue(return_type) ELSE carried[1]

\* RunFrame restoring the tables of functions, classes and interfaces too
RunFrame_RestoreTables(expression, return_type, body, entry_vars, old_vars, bound, d) ==
    IF bound.st # "ok"
    THEN [bound EXCEPT !.m = LogCall(bound.m, expression, entry_vars, old_vars,
                                     bound.m.variables, bound.st,
                                     [return_type |-> return_type, block |-> 0, val |-> VVoid])]
    ELSE The({ IF ran.st # "ok"
               THEN [ran EXCEPT !.m = LogCall(ran.m, expression, entry_vars, old_vars,
                                              ran.m.variables, ran.st,
                                              [return_type |-> return_type,
                                               block |-> bound.m.nblocks + 1, val |-> VVoid])]
               ELSE Ok(CallResult(return_type, ran.val),
                       LogCall([ran.m EXCEPT !.variables = old_vars,
                                             !.functions = bound.m.functions,
                                             !.classes = bound.m.classes,
                                             !.interfaces = bound.m.interfaces],
                               expression, entry_vars, old_vars, ran.m.variables, "ok",
                               [return_type |-> return_type, block |-> bound.m.nblocks + 1,
                                val |-> CallResult(return_type, ran.val)]))
               : ran \in {RunBlock(body, bound.m, d)} })

\* the frame of a call once its snapshot old_vars is taken and its
\* arguments are bound (bound is the outcome of the binding loop)
RunFrame(expression, return_type, body, entry_vars, old_vars, bound, d) ==
    IF bound.st # "ok"
    THEN [bound EXCEPT !.m = LogCall(bound.m, expression, entry_vars, old_vars,
                                     bound.m.variables, bound.st,
                                     [return_type |-> return_type, block |-> 0, val |-> VVoid])]
    ELSE The({ IF ran.st # "ok"
               THEN [ran EXCEPT !.m = LogCall(ran.m, expression, entry_vars, old_vars,
                                              ran.m.variables, ran.st,
                                              [return_type |-> return_type,
                                               block |-> bound.m.nblocks + 1, val |-> VVoid])]
               ELSE LET result == CallResult(return_type, ran.val)
                    IN Ok(result, LogCall(RestoreScope(ran.m, old_vars), expression,
                                          entry_vars, old_vars, ran.m.variables, "ok",
                                          [return_type |-> return_type,
                                           block |-> bound.m.nblocks + 1, val |-> result]))
               : ran \in {RunBlock(body, bound.m, d)} })

\* EvaluateFunctionCall evaluating the first argument before it looks the
\* function up and compares the counts
EvaluateFunctionCall_ArgumentFirst(expression, m, d) ==
    IF expression.name = "print" THEN EvaluatePrint(expression, m, d)
    ELSE The({ IF first.st # "ok" THEN first
               ELSE IF expression.name \notin DOMAIN m.functions
                    THEN Err(UndefinedFunction, first.m)
               ELSE IF Len(expression.arguments) # Len(m.functions[expression.name].parameters)
                    THEN Err(FunctionArity, first.m)
               ELSE IF d = 0 THEN Panic(StackOverflow, m)
               ELSE RunFrame(expression, m.functions[expression.name].return_type,
                             m.functions[expression.name].body, m.variables, m.variables,
                             BindArguments(m.functions[expression.name].parameters,
                                           expression.arguments, 1, m, d - 1), d - 1)
               : first \in {IF expression.arguments = <<>> THEN Ok(VVoid, m)
                            ELSE evaluate_expression(expression.arguments[1], m, d)} })

\* Expression::FunctionCall
EvaluateFunctionCall(expression, m, d) ==
    IF expression.name = "print" THEN EvaluatePrint(expression, m, d)
    ELSE IF expression.name \in DOMAIN m.functions
    THEN LET function == m.functions[expression.name]
         IN IF Len(expression.arguments) # Len(function.parameters)
            THEN Err(FunctionArity, m)
            ELSE IF d = 0 THEN Panic(StackOverflow, m)
            ELSE LET old_vars == m.variables
                     bound == BindArguments(function.parameters, expression.arguments, 1, m, d - 1)
                 IN RunFrame(expression, function.return_type, function.body,
                             m.variables, old_vars, bound, d - 1)
    ELSE Err(UndefinedFunction, m)

\* Expression::MethodCall
EvaluateMethodCall(expression, m, d) ==
    LET obj_value == evaluate_expression(expression.object, m, d)
    IN IF obj_value.st # "ok" THEN obj_value
       ELSE IF obj_value.val.kind # "Object" THEN Err(MethodOnNonObject, obj_value.m)
       ELSE IF obj_value.val.class_name \notin DOMAIN obj_value.m.classes
            THEN Err(ClassNotFound, obj_value.m)
       ELSE LET class_def == obj_value.m.classes[obj_value.val.class_name]
                k == FindMethod(class_def.methods, expression.method)
            IN IF k = 0 THEN Err(MethodNotFound, obj_value.m)
               ELSE LET method_def == class_def.methods[k]
                    IN IF Len(expression.arguments) # Len(method_def.parameters)
                       THEN Err(MethodArity, obj_value.m)
                       ELSE IF d = 0 THEN Panic(StackOverflow, obj_value.m)
                       ELSE LET old_vars == obj_value.m.variables
                                with_this == define_variable(obj_value.m, "this",
                                                 VObject(obj_value.val.class_name, obj_value.val.fields))
                                bound == BindMethodArguments(method_def.parameters,
                                                             expression.arguments, 1, with_this, d - 1)
                            IN RunFrame(expression, method_def.return_type, method_def.body,
                                        m.variables, old_vars, bound, d - 1)

\* Expression::FieldAccess
EvaluateFieldAccess(expression, m, d) ==
    LET obj_value == evaluate_expression(expression.object, m, d)
    IN IF obj_value.st # "ok" THEN obj_value
       ELSE IF obj_value.val.kind # "Object" THEN Err(FieldOnNonObject, obj_value.m)
       ELSE IF expression.field \in DOMAIN obj_value.val.fields
            THEN Ok(obj_value.val.fields[expression.field], obj_value.m)
       ELSE Err(FieldNotFound, obj_value.m)

\* Expression::ObjectCreation
EvaluateObjectCreation(expression, m) ==
    IF expression.class_name \in DOMAIN m.classes
    THEN Ok(VObject(expression.class_name,
                    NewObjectFields(m.classes[expression.class_name].fields)), m)
    ELSE Err(ClassNotFound, m)

evaluate_expression(expression, m, d) ==
    CASE expression.e = "Integer" -> Ok(VInteger(expression.n), m)
      [] expression.e = "String" -> EvaluateString(expression.s, m)
      [] expression.e = "Identifier" ->
            IF expression.name \in DOMAIN m.variables
            THEN Ok(m.variables[expression.name], m)
            ELSE Err(UndefinedVariable, m)
      [] expression.e = "Binary" -> EvaluateBinary(expression, m, d)
      [] expression.e = "FunctionCall" -> EvaluateFunctionCall(expression, m, d)
      [] expression.e = "StringInterpolation" -> Ok(VString(<<>>), m)
      [] expression.e = "MethodCall" -> EvaluateMethodCall(expression, m, d)
      [] expression.e = "FieldAccess" -> EvaluateFieldAccess(expression, m, d)
      [] expression.e = "ObjectCreation" -> EvaluateObjectCreation(expression, m)

\* Statement::VariableDeclaration
ExecuteVariableDeclaration(statement, m, d) ==
    LET val == evaluate_expression(statement.value, m, d)
    IN IF val.st # "ok" THEN val
       ELSE IF ~TypeMatches(statement.var_type, val.val) THEN Err(TypeMismatch, val.m)
       ELSE Ok(None, define_variable(val.m, statement.name, val.val))

\* Statement::If
ExecuteIf(statement, m, d) ==
    LET condition_value == evaluate_expression(statement.condition, m, d)
    IN IF condition_value.st # "ok" THEN condition_value
       ELSE IF Truthy(condition_value.val)
            THEN RunBlock(statement.then_branch,
                          LogBranch(condition_value.m, condition_value.val, "then"), d)
       ELSE IF statement.else_branch # None
            THEN RunBlock(statement.else_branch[1],
                          LogBranch(condition_value.m, condition_value.val, "else"), d)
       ELSE Ok(None, LogBranch(condition_value.m, condition_value.val, "none"))

\* ExecuteAssignment refusing a name that is not bound yet
ExecuteAssignment_BoundOnly(statement, m, d) ==
    The({ IF val.st # "ok" THEN val
          ELSE IF statement.target.e = "Identifier" /\ statement.target.name \in DOMAIN val.m.variables
               THEN Ok(None, define_variable(val.m, statement.target.name, val.val))
          ELSE Err(UnsupportedAssignmentTarget, val.m)
          : val \in {evaluate_expression(statement.value, m, d)} })

\* Statement::Assignment
ExecuteAssignment(statement, m, d) ==
    LET val == evaluate_expression(statement.value, m, d)
    IN IF val.st # "ok" THEN val
       ELSE IF statement.target.e = "Identifier"
            THEN Ok(None, define_variable(val.m, statement.target.name, val.val))
       ELSE Err(UnsupportedAssignmentTarget, val.m)

\* the match of execute_statement on the statement
StatementMatch(statement, m, d) ==
    CASE statement.s = "VariableDeclaration" -> ExecuteVariableDeclaration(statement, m, d)
      [] statement.s = "FunctionDefinition" ->
            Ok(None, define_function(m, statement.name,
                         VFunction(statement.parameters, statement.return_type, statement.body)))
      [] statement.s = "If" -> ExecuteIf(statement, m, d)
      [] statement.s = "Expression" ->
            LET value == evaluate_expression(statement.expr, m, d)
            IN IF value.st # "ok" THEN value ELSE Ok(Some(value.val), value.m)
      [] statement.s = "ClassDefinition" ->
            Ok(None, define_class(m, statement.name,
                         [name |-> statement.name, fields |-> statement.fields,
                          methods |-> statement.methods, implements |-> statement.implements]))
      [] statement.s = "InterfaceDefinition" ->
            Ok(None, define_interface(m, statement.name,
                         [name |-> statement.name, methods |-> statement.methods]))
      [] statement.s = "Assignment" -> ExecuteAssignment(statement, m, d)

execute_statement(statement, m, d) ==
    The({ [r EXCEPT !.m = LogExit(r.m, statement, m.cur, r)]
          : r \in {StatementMatch(statement, LogEnter(m, statement), d)} })

----------------------------------------------------------------------------
(* The programs interpret is given: any sequence of at most MaxStmts       *)
(* statements of Pool.                                                     *)

Lit(n) == EInteger(n)
Str(s) == EString(s)
Id(n) == EIdentifier(n)
Call(n, args) == EFunctionCall(n, args)
Say(x) == SExpression(EFunctionCall("print", <<x>>))

\* def f(p:Int) -> Int / n = p / Int b = 2 / p + 1 / end
DefF ==
    SFunctionDefinition("f", <<Parameter("p", TInt)>>, TInt,
        <<SAssignment(Id("n"), Id("p")),
          SVariableDeclaration("b", TInt, Lit(2)),
          SExpression(EBinary(Id("p"), "Add", Lit(1)))>>)

\* def f(r:Int) -> Int / r / 0 / end
DefFailing ==
    SFunctionDefinition("f", <<Parameter("r", TInt)>>, TInt,
        <<SExpression(EBinary(Id("r"), "Divide", Lit(0)))>>)

\* def g(p:Int) -> Int / Int r = p / if p / g(p - 1) / end / end
DefG ==
    SFunctionDefinition("g", <<Parameter("p", TInt)>>, TInt,
        <<SVariableDeclaration("r", TInt, Id("p")),
          SIf(Id("p"), <<SExpression(Call("g", <<EBinary(Id("p"), "Subtract", Lit(1))>>))>>, None)>>)

\* def h(p:Int q:String) -> String / q / end
DefH ==
    SFunctionDefinition("h", <<Parameter("p", TInt), Parameter("q", TString)>>, TString,
        <<SExpression(Id("q"))>>)

\* class P / Int x / String s / P k
\*   def m(v:Int): Int / this = v / o = v / Int x = 1 / v / end
\*   def w(): Void / end
\*   def e(): Int / z / end
\*   def t(): P / this / end
\* end
ClassP ==
    SClassDefinition("P", None,
        <<ClassField("x", TInt), ClassField("s", TString), ClassField("k", TCustom("P"))>>,
        <<Method("m", <<Parameter("v", TInt)>>, TInt,
              <<SAssignment(Id("this"), Id("v")),
                SAssignment(Id("o"), Id("v")),
                SVariableDeclaration("x", TInt, Lit(1)),
                SExpression(Id("v"))>>),
          Method("w", <<>>, TVoid, <<>>),
          Method("e", <<>>, TInt, <<SExpression(Id("z"))>>),
          Method("t", <<>>, TCustom("P"), <<SExpression(Id("this"))>>)>>)

\* class Q / end
ClassQ == SClassDefinition("Q", None, <<>>, <<>>)

\* def k(p:Int) -> String
\*   Int a = p / if 1 / 10 / p / print("in") / end / print("late")
\* end
DefK ==
    SFunctionDefinition("k", <<Parameter("p", TInt)>>, TString,
        <<SVariableDeclaration("a", TInt, Id("p")),
          SIf(Lit(1), <<SExpression(EBinary(Lit(10), "Divide", Id("p"))),
                        Say(Str(<<"i", "n">>))>>, None),
          Say(Str(<<"l", "a", "t", "e">>))>>)

\* class R
\*   def d(): Int / 1 / end
\*   def d(v:Int): Int / 2 / end
\*   def c(): R / end
\*   def s(v:Int): String / a = v / end
\* end
ClassR ==
    SClassDefinition("R", None, <<>>,
        <<Method("d", <<>>, TInt, <<SExpression(Lit(1))>>),
          Method("d", <<Parameter("v", TInt)>>, TInt, <<SExpression(Lit(2))>>),
          Method("c", <<>>, TCustom("R"), <<>>),
          Method("s", <<Parameter("v", TInt)>>, TString, <<SAssignment(Id("a"), Id("v"))>>)>>)

\* def j(c:P q:String) -> Void / end
DefJ ==
    SFunctionDefinition("j", <<Parameter("c", TCustom("P")), Parameter("q", TString)>>, TVoid, <<>>)

\* def d() -> Void
\*   def f(p:Int) -> Int / p / end
\*   class Q / Int x / end
\*   interface I / end
\*   Int b = 1
\* end
DefD ==
    SFunctionDefinition("d", <<>>, TVoid,
        <<SFunctionDefinition("f", <<Parameter("p", TInt)>>, TInt, <<SExpression(Id("p"))>>),
          SClassDefinition("Q", None, <<ClassField("x", TInt)>>, <<>>),
          SInterfaceDefinition("I", <<>>),
          SVariableDeclaration("b", TInt, Lit(1))>>)

\* def e(n:Int b:Int) -> Int / b / end
DefE ==
    SFunctionDefinition("e", <<Parameter("n", TInt), Parameter("b", TInt)>>, TInt,
        <<SExpression(Id("b"))>>)

\* def v() -> Int / n / end
DefV == SFunctionDefinition("v", <<>>, TInt, <<SExpression(Id("n"))>>)

Definitions ==
    <<DefF, DefFailing, DefG, DefH, ClassP, ClassQ, DefK, ClassR, DefJ, DefD, DefE, DefV>>

\* the types and initializers of the typed declarations
DeclTypes == <<TInt, TString, TVoid, TCustom("P"), TCustom("Q")>>
DeclValues ==
    <<Lit(0), Lit(1), Str(<<"E", "x">>), EObjectCreation("P"),
      EMethodCall(Id("o"), "w", <<>>),
      EBinary(Lit(10), "Divide", Lit(0)),
      Call("f", <<Lit(5)>>)>>

\* "n", "s", "o", "r": the name a declared type is usually given
DeclName(t) ==
    CASE t.tag = "Int" -> "n"
      [] t.tag = "String" -> "s"
      [] t.tag = "Custom" -> "o"
      [] OTHER -> "r"

Declarations ==
    [i \in 1..(Len(DeclTypes) * Len(DeclValues)) |->
        LET t == DeclTypes[((i - 1) \div Len(DeclValues)) + 1]
            v == DeclValues[((i - 1) % Len(DeclValues)) + 1]
        IN SVariableDeclaration(DeclName(t), t, v)]

\* Int r = 10 / 0, Int r = f(5), Int r = 1
DeclarationsOfR ==
    <<SVariableDeclaration("r", TInt, EBinary(Lit(10), "Divide", Lit(0))),
      SVariableDeclaration("r", TInt, Call("f", <<Lit(5)>>)),
      SVariableDeclaration("r", TInt, Lit(1))>>

Calls ==
    <<SExpression(Call("f", <<Lit(1)>>)),
      SExpression(Call("f", <<Call("f", <<Lit(1)>>)>>)),
      SExpression(Call("g", <<Lit(2)>>)),
      SExpression(Call("g", <<Id("n")>>)),
      SExpression(Call("h", <<Lit(1), Lit(2)>>)),
      SExpression(Call("h", <<Lit(1), Str(<<"a">>)>>)),
      SExpression(EMethodCall(Id("o"), "m", <<Lit(5)>>)),
      SExpression(EMethodCall(Id("o"), "w", <<>>)),
      SExpression(EMethodCall(Id("o"), "e", <<>>)),
      SExpression(EMethodCall(Id("o"), "t", <<>>)),
      SExpression(EMethodCall(Id("o"), "m", <<Id("z")>>)),
      SExpression(Call("k", <<Lit(0)>>)),
      SExpression(Call("k", <<Lit(2)>>)),
      SExpression(Call("u", <<Call("print", <<Lit(1)>>)>>)),
      SExpression(Call("f", <<Call("print", <<Lit(1)>>), Call("print", <<Lit(2)>>)>>)),
      SExpression(EMethodCall(EObjectCreation("R"), "d", <<Lit(1)>>)),
      SExpression(EMethodCall(EObjectCreation("R"), "d", <<>>)),
      SExpression(EMethodCall(EObjectCreation("R"), "c", <<>>)),
      SExpression(EMethodCall(EObjectCreation("R"), "s", <<Lit(1)>>)),
      SExpression(EMethodCall(Id("n"), "m", <<Lit(5)>>)),
      SExpression(EMethodCall(Id("o"), "m", <<Str(<<"a">>)>>)),
      SExpression(EMethodCall(Id("o"), "u", <<>>)),
      SExpression(Call("j", <<EObjectCreation("P"), Str(<<"a">>)>>)),
      SExpression(Call("j", <<EObjectCreation("Q"), Str(<<"a">>)>>)),
      SExpression(Call("j", <<Lit(1), Lit(2)>>)),
      SExpression(Call("d", <<>>)),
      SExpression(Call("e", <<Lit(1), Id("n")>>)),
      SExpression(Call("e", <<Lit(1), Call("v", <<>>)>>)),
      SExpression(EMethodCall(EObjectCreation("P"), "m", <<Id("this")>>))>>

\* if c / print("yes") / else / print("no") / end, and the same without else
Conditions ==
    <<Id("n"), Id("s"), Id("o"), Str(<<>>), Lit(0), Lit(2), EMethodCall(Id("o"), "w", <<>>)>>
Yes == Say(Str(<<"y", "e", "s">>))
No == Say(Str(<<"n", "o">>))
Ifs ==
    [i \in 1..(2 * Len(Conditions)) |->
        IF i <= Len(Conditions)
        THEN SIf(Conditions[i], <<Yes>>, Some(<<No>>))
        ELSE SIf(Conditions[i - Len(Conditions)], <<Yes>>, None)]

FieldAccesses ==
    <<SExpression(EFieldAccess(EObjectCreation("P"), "x")),
      SExpression(EFieldAccess(EObjectCreation("P"), "s")),
      SExpression(EFieldAccess(EObjectCreation("P"), "k")),
      SExpression(EFieldAccess(EObjectCreation("P"), "z")),
      SExpression(EFieldAccess(EObjectCreation("Q"), "x")),
      SExpression(EFieldAccess(Id("o"), "x")),
      SExpression(EFieldAccess(Id("n"), "x")),
      SExpression(EFieldAccess(Str(<<"a">>), "x"))>>

\* P.new(print(1)) and Q.new(): the parser keeps the class name only
Creations == <<SExpression(EObjectCreation("P")), SExpression(EObjectCreation("Q"))>>

\* n = "a", o = 1, a.b = 1
Assignments ==
    <<SAssignment(Id("n"), Str(<<"a">>)),
      SAssignment(Id("o"), Lit(1)),
      SAssignment(EFieldAccess(Id("a"), "b"), Lit(1))>>

\* "#{n}#{n}" and "}#{n}"
Strings ==
    <<SExpression(Str(<<"#", "{", "n", "}", "#", "{", "n", "}">>)),
      SExpression(Str(<<"}", "#", "{", "n", "}">>))>>

\* print(1) - print(2), 10 / 0 + print(2), 10 / (print(1) == 1),
\* print(1) == print(2)
Binaries ==
    <<SExpression(EBinary(Call("print", <<Lit(1)>>), "Subtract", Call("print", <<Lit(2)>>))),
      SExpression(EBinary(EBinary(Lit(10), "Divide", Lit(0)), "Add", Call("print", <<Lit(2)>>))),
      SExpression(EBinary(Lit(10), "Divide", EBinary(Call("print", <<Lit(1)>>), "Equal", Lit(1)))),
      SExpression(EBinary(Call("print", <<Lit(1)>>), "Equal", Call("print", <<Lit(2)>>)))>>

\* print(n + 2), print(s), print(), print(print(1) 2)
Prints ==
    <<Say(EBinary(Id("n"), "Add", Lit(2))),
      Say(Id("s")),
      SExpression(Call("print", <<>>)),
      SExpression(Call("print", <<Call("print", <<Lit(1)>>), Lit(2)>>))>>

Pool ==
    Definitions \o Declarations \o DeclarationsOfR \o Calls \o Ifs \o FieldAccesses \o Creations
        \o Assignments \o Strings \o Binaries \o Prints

----------------------------------------------------------------------------
(* The interpreter as a state machine: one step of the loop of             *)
(* Interpreter::interpret per action.                                      *)

NoStatement == [s |-> "none"]

\* the interpreter the evaluator walks with: the tables, the output so far
\* and empty logs
Machine ==
    [variables |-> environment.variables, functions |-> environment.functions,
     classes |-> environment.classes, interfaces |-> environment.interfaces,
     out |-> stdout, calls |-> <<>>, branches |-> <<>>,
     steps |-> <<>>, blocks |-> <<>>, cur |-> 0, nblocks |-> 0]

Tables(m) ==
    [variables |-> m.variables, functions |-> m.functions,
     classes |-> m.classes, interfaces |-> m.interfaces]

NoOpCall == [operator |-> "none"]
NoParse == [tokens |-> <<>>]

Init ==
    /\ environment = EnvironmentNew
    /\ stdout = <<>>
    /\ status = "running"
    /\ executed = 0
    /\ overflow_checks \in BOOLEAN
    /\ last = [statement |-> NoStatement]
    /\ opcall = NoOpCall
    /\ parsed = NoParse

\* the loop of interpret ending at the first statement that carries a value
LoopStatus_StopAtCarried(r) ==
    CASE r.st = "ok" -> IF r.val = None THEN "running" ELSE "done"
      [] r.st = "err" -> "error"
      [] r.st = "panic" -> "panic"

\* the `?` on the result of a statement: Ok(_) goes on with the loop whatever
\* the statement carried, Err(e) returns it
LoopStatus(r) ==
    CASE r.st = "ok" -> "running"
      [] r.st = "err" -> "error"
      [] r.st = "panic" -> "panic"

\* self.execute_statement(&statement)? in the loop of interpret
Interpret(statement) ==
    /\ status = "running"
    /\ executed < MaxStmts
    /\ \E r \in {execute_statement(statement, Machine, MaxDepth)} :
          /\ environment' = Tables(r.m)
          /\ stdout' = r.m.out
          /\ status' = LoopStatus(r)
          /\ last' = [statement |-> statement,
                      pre |-> environment,
                      pre_out |-> stdout,
                      st |-> r.st,
                      err |-> r.err,
                      carried |-> IF r.st = "ok" THEN r.val ELSE None,
                      calls |-> r.m.calls,
                      branches |-> r.m.branches,
                      steps |-> r.m.steps,
                      blocks |-> r.m.blocks]
    /\ executed' = executed + 1
    /\ UNCHANGED <<overflow_checks, opcall, parsed>>

\* the loop of interpret runs out of statements: Ok(())
InterpretReturn ==
    /\ status = "running"
    /\ status' = "done"
    /\ UNCHANGED <<environment, stdout, executed, overflow_checks, last, opcall, parsed>>

Next ==
    \/ \E i \in 1..Len(Pool) : Interpret(Pool[i])
    \/ InterpretReturn

Spec == Init /\ [][Next]_vars

----------------------------------------------------------------------------
(* The binary operator helpers applied directly to two values: every kind  *)
(* of Value, the ends of the Integer range included.                       *)

Values ==
    <<VInteger(IntMin), VInteger(-1), VInteger(0), VInteger(1), VInteger(2), VInteger(IntMax),
      VString(<<>>), VString(<<"a">>), VString(<<"a", "b">>),
      VObject("P", EmptyMap),
      VObject("P", Insert(EmptyMap, "x", VInteger(0))),
      VObject("Q", EmptyMap),
      PrintBuiltin,
      VFunction(<<>>, TInt, <<>>),
      VVoid>>

Operators == <<"Add", "Subtract", "Multiply", "Divide", "Equal">>

ApplyBinary(operator, left, right) ==
    /\ opcall = NoOpCall
    /\ LET r == ApplyOperator(operator, left, right)
       IN opcall' = [operator |-> operator, left |-> left, right |-> right,
                     st |-> r.st, val |-> r.val, err |-> r.err]
    /\ UNCHANGED <<environment, stdout, status, executed, overflow_checks, last, parsed>>

NextOps ==
    \E o \in 1..Len(Operators), i \in 1..Len(Values), j \in 1..Len(Values) :
        ApplyBinary(Operators[o], Values[i], Values[j])

SpecOps == Init /\ [][NextOps]_vars

----------------------------------------------------------------------------
(* lexer.rs: Token (its TokenType; line and column play no part in parsing) *)

Tok(tt) == [t |-> tt]
TokInteger(n) == [t |-> "Integer", n |-> n]
TokString(s) == [t |-> "String", s |-> s]
TokIdentifier(name) == [t |-> "Identifier", name |-> name]

----------------------------------------------------------------------------
(* parser.rs: Parser.  ts is Parser.tokens and c is Parser.current (an     *)
(* index from 0); every function returns its Result and the new current.   *)
(* A loop or a recursion that the code repeats from an unchanged parser     *)
(* never ends: its outcome is "hang" (a loop, which grows its Vec without   *)
(* bound) or "overflow" (a recursion, which exhausts the host stack).       *)

POk(v, c) == [st |-> "ok", val |-> v, err |-> "", current |-> c]
PErr(e, c) == [st |-> "err", val |-> <<>>, err |-> e, current |-> c]
PHang(c) == [st |-> "hang", val |-> <<>>, err |-> "", current |-> c]
POverflow(c) == [st |-> "overflow", val |-> <<>>, err |-> "", current |-> c]

peek(ts, c) == ts[c + 1]

previous(ts, c) == ts[c]

is_at_end(ts, c) == c >= Len(ts) \/ peek(ts, c).t = "Eof"

\* std::mem::discriminant equality: the variant, not its payload
check(ts, c, tt) == IF is_at_end(ts, c) THEN FALSE ELSE peek(ts, c).t = tt

\* Parser.current after advance(); the token advance returns is previous
advance(ts, c) == IF ~is_at_end(ts, c) THEN c + 1 ELSE c

\* consume: the new current, or -1 for Err(message)
consume(ts, c, tt) == IF check(ts, c, tt) THEN advance(ts, c) ELSE -1

\* consume_newline_or_eof consuming the next token whatever it is
consume_newline_or_eof_AnyToken(ts, c) ==
    IF ~is_at_end(ts, c) THEN advance(ts, c) ELSE c

consume_newline_or_eof(ts, c) ==
    IF check(ts, c, "Newline") \/ check(ts, c, "Eof")
    THEN (IF ~is_at_end(ts, c) THEN advance(ts, c) ELSE c)
    ELSE c

RECURSIVE expression(_, _)
RECURSIVE statement(_, _)
RECURSIVE ArgumentLoop(_, _, _)
RECURSIVE PostfixLoop(_, _, _)
RECURSIVE MultiplicationLoop(_, _, _)
RECURSIVE AdditionLoop(_, _, _)
RECURSIVE EqualityLoop(_, _, _)
RECURSIVE addition(_, _)
RECURSIVE BlockLoop(_, _, _, _)

\* loop { arguments.push(self.expression()?); if self.check(RightParen) { break; } }
ArgumentLoop(ts, c, arguments) ==
    The({ IF r.st # "ok" THEN r
          ELSE IF check(ts, r.current, "RightParen")
               THEN POk(Append(arguments, r.val), r.current)
          ELSE IF r.current = c THEN PHang(c)
          ELSE ArgumentLoop(ts, r.current, Append(arguments, r.val))
          : r \in {expression(ts, c)} })

\* the argument list after its "(": the arguments, then consume(RightParen)
Arguments(ts, c) ==
    The({ IF args.st # "ok" THEN args
          ELSE IF consume(ts, args.current, "RightParen") < 0
               THEN PErr("Expected ')'", args.current)
          ELSE POk(args.val, consume(ts, args.current, "RightParen"))
          : args \in {IF ~check(ts, c, "RightParen") THEN ArgumentLoop(ts, c, <<>>)
                      ELSE POk(<<>>, c)} })

\* PostfixStep making of .new(arguments) a method call like any other
PostfixStep_NewIsMethod(ts, c, expr) ==
    IF peek(ts, c).t # "Identifier" THEN PErr("Expected identifier after '.'", c)
    ELSE IF check(ts, advance(ts, c), "LeftParen")
         THEN The({ IF args.st # "ok" THEN args
                    ELSE POk(EMethodCall(expr, peek(ts, c).name, args.val), args.current)
                    : args \in {Arguments(ts, advance(ts, advance(ts, c)))} })
         ELSE POk(EFieldAccess(expr, peek(ts, c).name), advance(ts, c))

\* PostfixStep making an object creation of .new without parentheses too
PostfixStep_NewWithoutParentheses(ts, c, expr) ==
    IF peek(ts, c).t # "Identifier" THEN PErr("Expected identifier after '.'", c)
    ELSE IF check(ts, advance(ts, c), "LeftParen")
         THEN The({ IF args.st # "ok" THEN args
                    ELSE IF peek(ts, c).name = "new"
                         THEN (IF expr.e = "Identifier"
                               THEN POk(EObjectCreation(expr.name), args.current)
                               ELSE PErr("'new' can only be called on class names",
                                         args.current))
                    ELSE POk(EMethodCall(expr, peek(ts, c).name, args.val), args.current)
                    : args \in {Arguments(ts, advance(ts, advance(ts, c)))} })
         ELSE IF peek(ts, c).name = "new" /\ expr.e = "Identifier"
              THEN POk(EObjectCreation(expr.name), advance(ts, c))
              ELSE POk(EFieldAccess(expr, peek(ts, c).name), advance(ts, c))

\* one step of "Handle dot notation": c is the current after the dot
PostfixStep(ts, c, expr) ==
    IF peek(ts, c).t # "Identifier" THEN PErr("Expected identifier after '.'", c)
    ELSE LET field_or_method_name == peek(ts, c).name
             c1 == advance(ts, c)
         IN IF check(ts, c1, "LeftParen")
            THEN The({ IF args.st # "ok" THEN args
                       ELSE IF field_or_method_name = "new"
                            THEN (IF expr.e = "Identifier"
                                  THEN POk(EObjectCreation(expr.name), args.current)
                                  ELSE PErr("'new' can only be called on class names",
                                            args.current))
                       ELSE POk(EMethodCall(expr, field_or_method_name, args.val), args.current)
                       : args \in {Arguments(ts, advance(ts, c1))} })
            ELSE POk(EFieldAccess(expr, field_or_method_name), c1)

\* while self.check(&TokenType::Dot)
PostfixLoop(ts, c, expr) ==
    IF ~check(ts, c, "Dot") THEN POk(expr, c)
    ELSE The({ IF r.st # "ok" THEN r ELSE PostfixLoop(ts, r.current, r.val)
               : r \in {PostfixStep(ts, advance(ts, c), expr)} })

\* the match of primary on the token advance returned
PrimaryAtom(ts, c) ==
    LET c1 == advance(ts, c)
        token == previous(ts, c1)
    IN CASE token.t = "Integer" -> POk(EInteger(token.n), c1)
         [] token.t = "String" -> POk(EString(token.s), c1)
         [] token.t = "Identifier" ->
               IF check(ts, c1, "LeftParen")
               THEN The({ IF args.st # "ok" THEN args
                          ELSE POk(EFunctionCall(token.name, args.val), args.current)
                          : args \in {Arguments(ts, advance(ts, c1))} })
               ELSE POk(EIdentifier(token.name), c1)
         [] token.t = "LeftParen" ->
               IF c1 = c THEN POverflow(c)
               ELSE The({ IF expr.st # "ok" THEN expr
                          ELSE IF consume(ts, expr.current, "RightParen") < 0
                               THEN PErr("Expected ')'", expr.current)
                          ELSE POk(expr.val, consume(ts, expr.current, "RightParen"))
                          : expr \in {expression(ts, c1)} })
         [] OTHER -> PErr("Expected expression", c1)

primary(ts, c) ==
    The({ IF expr.st # "ok" THEN expr ELSE PostfixLoop(ts, expr.current, expr.val)
          : expr \in {PrimaryAtom(ts, c)} })

MultiplicationLoop(ts, c, expr) ==
    IF ~(check(ts, c, "Multiply") \/ check(ts, c, "Divide")) THEN POk(expr, c)
    ELSE LET c1 == advance(ts, c)
             operator == IF previous(ts, c1).t = "Multiply" THEN "Multiply" ELSE "Divide"
         IN The({ IF right.st # "ok" THEN right
                  ELSE MultiplicationLoop(ts, right.current, EBinary(expr, operator, right.val))
                  : right \in {primary(ts, c1)} })

multiplication(ts, c) ==
    The({ IF expr.st # "ok" THEN expr ELSE MultiplicationLoop(ts, expr.current, expr.val)
          : expr \in {primary(ts, c)} })

\* AdditionLoop taking everything after the operator as its right operand
AdditionLoop_RightAssociative(ts, c, expr) ==
    IF ~(check(ts, c, "Plus") \/ check(ts, c, "Minus")) THEN POk(expr, c)
    ELSE LET c1 == advance(ts, c)
             operator == IF previous(ts, c1).t = "Plus" THEN "Add" ELSE "Subtract"
         IN The({ IF right.st # "ok" THEN right
                  ELSE POk(EBinary(expr, operator, right.val), right.current)
                  : right \in {addition(ts, c1)} })

AdditionLoop(ts, c, expr) ==
    IF ~(check(ts, c, "Plus") \/ check(ts, c, "Minus")) THEN POk(expr, c)
    ELSE LET c1 == advance(ts, c)
             operator == IF previous(ts, c1).t = "Plus" THEN "Add" ELSE "Subtract"
         IN The({ IF right.st # "ok" THEN right
                  ELSE AdditionLoop(ts, right.current, EBinary(expr, operator, right.val))
                  : right \in {multiplication(ts, c1)} })

addition(ts, c) ==
    The({ IF expr.st # "ok" THEN expr ELSE AdditionLoop(ts, expr.current, expr.val)
          : expr \in {multiplication(ts, c)} })

EqualityLoop(ts, c, expr) ==
    IF ~check(ts, c, "Equal") THEN POk(expr, c)
    ELSE The({ IF right.st # "ok" THEN right
               ELSE EqualityLoop(ts, right.current, EBinary(expr, "Equal", right.val))
               : right \in {addition(ts, advance(ts, c))} })

equality(ts, c) ==
    The({ IF expr.st # "ok" THEN expr ELSE EqualityLoop(ts, expr.current, expr.val)
          : expr \in {addition(ts, c)} })

expression(ts, c) == equality(ts, c)

\* parse_type
parse_type(ts, c) ==
    IF check(ts, c, "Int") THEN POk(TInt, advance(ts, c))
    ELSE IF check(ts, c, "String_") THEN POk(TString, advance(ts, c))
    ELSE IF check(ts, c, "Void") THEN POk(TVoid, advance(ts, c))
    ELSE LET c1 == advance(ts, c)
         IN IF previous(ts, c1).t = "Identifier"
            THEN POk(TCustom(previous(ts, c1).name), c1)
            ELSE PErr("Expected type", c1)

\* the parameter type of function_definition: Int or String only
PlainParameterType(ts, c) ==
    IF check(ts, c, "Int") THEN POk(TInt, advance(ts, c))
    ELSE IF check(ts, c, "String_") THEN POk(TString, advance(ts, c))
    ELSE PErr("Expected parameter type", c)

\* "Skip any commas or other separators"
RECURSIVE SkipSeparators(_, _)
SkipSeparators(ts, c) ==
    IF ~check(ts, c, "Identifier") /\ ~check(ts, c, "RightParen") /\ ~is_at_end(ts, c)
    THEN The({ SkipSeparators(ts, c1) : c1 \in {advance(ts, c)} })
    ELSE c

\* the loop over the parameters of a definition; any_type says whether the
\* types are read by parse_type (methods) or are Int and String only
RECURSIVE ParameterLoop(_, _, _, _)
ParameterLoop(ts, c, parameters, any_type) ==
    LET c1 == advance(ts, c)
    IN IF previous(ts, c1).t # "Identifier" THEN PErr("Expected parameter name", c1)
       ELSE IF consume(ts, c1, "Colon") < 0 THEN PErr("Expected ':' after parameter name", c1)
       ELSE The({ IF param_type.st # "ok" THEN param_type
                  ELSE IF check(ts, param_type.current, "RightParen")
                       THEN POk(Append(parameters, Parameter(previous(ts, c1).name, param_type.val)),
                                param_type.current)
                  ELSE The({ ParameterLoop(ts, c2,
                                           Append(parameters,
                                                  Parameter(previous(ts, c1).name, param_type.val)),
                                           any_type)
                             : c2 \in {SkipSeparators(ts, param_type.current)} })
                  : param_type \in {IF any_type THEN parse_type(ts, consume(ts, c1, "Colon"))
                                    ELSE PlainParameterType(ts, consume(ts, c1, "Colon"))} })

\* "(" parameters ")" of a definition: c is the current before the "("
Parameters(ts, c, any_type) ==
    IF consume(ts, c, "LeftParen") < 0 THEN PErr("Expected '('", c)
    ELSE The({ IF parameters.st # "ok" THEN parameters
               ELSE IF consume(ts, parameters.current, "RightParen") < 0
                    THEN PErr("Expected ')'", parameters.current)
               ELSE POk(parameters.val, consume(ts, parameters.current, "RightParen"))
               : parameters \in {IF ~check(ts, consume(ts, c, "LeftParen"), "RightParen")
                                 THEN ParameterLoop(ts, consume(ts, c, "LeftParen"), <<>>, any_type)
                                 ELSE POk(<<>>, consume(ts, c, "LeftParen"))} })

\* while !check(<a token of stops>) && !is_at_end(): skip a Newline, or push
\* a statement
BlockLoop(ts, c, stops, body) ==
    IF (\E tt \in stops : check(ts, c, tt)) \/ is_at_end(ts, c) THEN POk(body, c)
    ELSE IF check(ts, c, "Newline")
         THEN The({ BlockLoop(ts, c1, stops, body) : c1 \in {advance(ts, c)} })
    ELSE The({ IF r.st # "ok" THEN r ELSE BlockLoop(ts, r.current, stops, Append(body, r.val))
               : r \in {statement(ts, c)} })

\* a body up to its `end`: the statements, consume(End), consume_newline_or_eof
BodyToEnd(ts, c) ==
    The({ IF body.st # "ok" THEN body
          ELSE IF consume(ts, body.current, "End") < 0 THEN PErr("Expected 'end'", body.current)
          ELSE POk(body.val, consume_newline_or_eof(ts, consume(ts, body.current, "End")))
          : body \in {BlockLoop(ts, c, {"End"}, <<>>)} })

variable_or_custom_declaration(ts, c) ==
    LET var_type ==
            IF check(ts, c, "Int") THEN POk(TInt, advance(ts, c))
            ELSE IF check(ts, c, "String_") THEN POk(TString, advance(ts, c))
            ELSE IF peek(ts, c).t = "Identifier" THEN POk(TCustom(peek(ts, c).name), advance(ts, c))
            ELSE PErr("Expected type", c)
    IN IF var_type.st # "ok" THEN var_type
       ELSE LET c1 == advance(ts, var_type.current)
            IN IF previous(ts, c1).t # "Identifier" THEN PErr("Expected identifier", c1)
               ELSE IF ~check(ts, c1, "Assign") THEN PErr("Expected '='", c1)
               ELSE The({ IF value.st # "ok" THEN value
                          ELSE POk(SVariableDeclaration(previous(ts, c1).name, var_type.val,
                                                        value.val),
                                   consume_newline_or_eof(ts, value.current))
                          : value \in {expression(ts, advance(ts, c1))} })

\* function_definition after its parameters
FunctionTail(ts, name, parameters) ==
    IF consume(ts, parameters.current, "Arrow") < 0 THEN PErr("Expected '->'", parameters.current)
    ELSE LET return_type == PlainParameterType(ts, consume(ts, parameters.current, "Arrow"))
         IN IF return_type.st # "ok" THEN PErr("Expected return type", return_type.current)
            ELSE The({ IF body.st # "ok" THEN body
                       ELSE POk(SFunctionDefinition(name, parameters.val, return_type.val, body.val),
                                body.current)
                       : body \in {BodyToEnd(ts, consume_newline_or_eof(ts, return_type.current))} })

function_definition(ts, c) ==
    IF consume(ts, c, "Def") < 0 THEN PErr("Expected 'def'", c)
    ELSE LET c1 == advance(ts, consume(ts, c, "Def"))
         IN IF previous(ts, c1).t # "Identifier" THEN PErr("Expected function name", c1)
            ELSE The({ IF parameters.st # "ok" THEN parameters
                       ELSE FunctionTail(ts, previous(ts, c1).name, parameters)
                       : parameters \in {Parameters(ts, c1, FALSE)} })

\* if_statement after its then_branch: the optional else, then `end`
IfTail(ts, condition, then_branch) ==
    The({ IF else_branch.st # "ok" THEN else_branch
          ELSE IF consume(ts, else_branch.current, "End") < 0
               THEN PErr("Expected 'end'", else_branch.current)
          ELSE POk(SIf(condition, then_branch.val, else_branch.val),
                   consume_newline_or_eof(ts, consume(ts, else_branch.current, "End")))
          : else_branch \in
                {IF check(ts, then_branch.current, "Else")
                 THEN The({ IF r.st # "ok" THEN r ELSE POk(Some(r.val), r.current)
                            : r \in {BlockLoop(ts, consume_newline_or_eof(ts,
                                                       advance(ts, then_branch.current)),
                                               {"End"}, <<>>)} })
                 ELSE POk(None, then_branch.current)} })

if_statement(ts, c) ==
    IF consume(ts, c, "If") < 0 THEN PErr("Expected 'if'", c)
    ELSE The({ IF condition.st # "ok" THEN condition
               ELSE The({ IF then_branch.st # "ok" THEN then_branch
                          ELSE IfTail(ts, condition.val, then_branch)
                          : then_branch \in
                                {BlockLoop(ts, consume_newline_or_eof(ts, condition.current),
                                           {"Else", "End"}, <<>>)} })
               : condition \in {expression(ts, consume(ts, c, "If"))} })

parse_field(ts, c) ==
    The({ IF field_type.st # "ok" THEN field_type
          ELSE LET c1 == advance(ts, field_type.current)
               IN IF previous(ts, c1).t # "Identifier" THEN PErr("Expected field name", c1)
                  ELSE POk(ClassField(previous(ts, c1).name, field_type.val),
                           consume_newline_or_eof(ts, c1))
          : field_type \in {parse_type(ts, c)} })

\* the head of parse_method and parse_interface_method: name, parameters,
\* ":" and the return type, then consume_newline_or_eof
MethodHead(ts, c) ==
    IF consume(ts, c, "Def") < 0 THEN PErr("Expected 'def'", c)
    ELSE LET c1 == advance(ts, consume(ts, c, "Def"))
         IN IF previous(ts, c1).t # "Identifier" THEN PErr("Expected method name", c1)
            ELSE The({ IF parameters.st # "ok" THEN parameters
                       ELSE IF consume(ts, parameters.current, "Colon") < 0
                            THEN PErr("Expected ':' before return type", parameters.current)
                       ELSE LET return_type ==
                                    parse_type(ts, consume(ts, parameters.current, "Colon"))
                            IN IF return_type.st # "ok" THEN return_type
                               ELSE POk([name |-> previous(ts, c1).name,
                                         parameters |-> parameters.val,
                                         return_type |-> return_type.val],
                                        consume_newline_or_eof(ts, return_type.current))
                       : parameters \in {Parameters(ts, c1, TRUE)} })

parse_method(ts, c) ==
    The({ IF head.st # "ok" THEN head
          ELSE The({ IF body.st # "ok" THEN body
                     ELSE POk(Method(head.val.name, head.val.parameters, head.val.return_type,
                                     body.val),
                              body.current)
                     : body \in {BodyToEnd(ts, head.current)} })
          : head \in {MethodHead(ts, c)} })

parse_interface_method(ts, c) == MethodHead(ts, c)

\* the loop over the members of a class: a method after `def`, else a field
RECURSIVE ClassBodyLoop(_, _, _, _)
ClassBodyLoop(ts, c, fields, methods) ==
    IF check(ts, c, "End") \/ is_at_end(ts, c)
    THEN POk([fields |-> fields, methods |-> methods], c)
    ELSE IF check(ts, c, "Newline")
         THEN The({ ClassBodyLoop(ts, c1, fields, methods) : c1 \in {advance(ts, c)} })
    ELSE IF check(ts, c, "Def")
         THEN The({ IF r.st # "ok" THEN r
                    ELSE ClassBodyLoop(ts, r.current, fields, Append(methods, r.val))
                    : r \in {parse_method(ts, c)} })
    ELSE The({ IF r.st # "ok" THEN r
               ELSE ClassBodyLoop(ts, r.current, Append(fields, r.val), methods)
               : r \in {parse_field(ts, c)} })

\* class_definition after the class name: c1 is the current after the name
ClassTail(ts, c1) ==
    LET implements ==
            IF check(ts, c1, "Implements")
            THEN LET c2 == advance(ts, advance(ts, c1))
                 IN IF previous(ts, c2).t = "Identifier"
                    THEN POk(Some(previous(ts, c2).name), c2)
                    ELSE PErr("Expected interface name after 'implements'", c2)
            ELSE POk(None, c1)
    IN IF implements.st # "ok" THEN implements
       ELSE The({ IF members.st # "ok" THEN members
                  ELSE IF consume(ts, members.current, "End") < 0
                       THEN PErr("Expected 'end'", members.current)
                  ELSE POk(SClassDefinition(previous(ts, c1).name, implements.val,
                                            members.val.fields, members.val.methods),
                           consume_newline_or_eof(ts, consume(ts, members.current, "End")))
                  : members \in {ClassBodyLoop(ts, consume_newline_or_eof(ts, implements.current),
                                               <<>>, <<>>)} })

class_definition(ts, c) ==
    IF consume(ts, c, "Class") < 0 THEN PErr("Expected 'class'", c)
    ELSE The({ IF previous(ts, c1).t # "Identifier" THEN PErr("Expected class name", c1)
               ELSE ClassTail(ts, c1)
               : c1 \in {advance(ts, consume(ts, c, "Class"))} })

RECURSIVE InterfaceBodyLoop(_, _, _)
InterfaceBodyLoop(ts, c, methods) ==
    IF check(ts, c, "End") \/ is_at_end(ts, c) THEN POk(methods, c)
    ELSE IF check(ts, c, "Newline")
         THEN The({ InterfaceBodyLoop(ts, c1, methods) : c1 \in {advance(ts, c)} })
    ELSE The({ IF r.st # "ok" THEN r ELSE InterfaceBodyLoop(ts, r.current, Append(methods, r.val))
               : r \in {parse_interface_method(ts, c)} })

interface_definition(ts, c) ==
    IF consume(ts, c, "Interface") < 0 THEN PErr("Expected 'interface'", c)
    ELSE LET c1 == advance(ts, consume(ts, c, "Interface"))
         IN IF previous(ts, c1).t # "Identifier" THEN PErr("Expected interface name", c1)
            ELSE The({ IF methods.st # "ok" THEN methods
                       ELSE IF consume(ts, methods.current, "End") < 0
                            THEN PErr("Expected 'end'", methods.current)
                       ELSE POk(SInterfaceDefinition(previous(ts, c1).name, methods.val),
                                consume_newline_or_eof(ts, consume(ts, methods.current, "End")))
                       : methods \in {InterfaceBodyLoop(ts, consume_newline_or_eof(ts, c1), <<>>)} })

\* the last branch of statement: an assignment or an expression
AssignmentOrExpression(ts, c) ==
    The({ IF expr.st # "ok" THEN expr
          ELSE IF check(ts, expr.current, "Assign")
               THEN The({ IF value.st # "ok" THEN value
                          ELSE POk(SAssignment(expr.val, value.val),
                                   consume_newline_or_eof(ts, value.current))
                          : value \in {expression(ts, advance(ts, expr.current))} })
          ELSE POk(SExpression(expr.val), consume_newline_or_eof(ts, expr.current))
          : expr \in {expression(ts, c)} })

statement(ts, c) ==
    IF check(ts, c, "Int") \/ check(ts, c, "String_") THEN variable_or_custom_declaration(ts, c)
    ELSE IF check(ts, c, "Def") THEN function_definition(ts, c)
    ELSE IF check(ts, c, "If") THEN if_statement(ts, c)
    ELSE IF check(ts, c, "Class") THEN class_definition(ts, c)
    ELSE IF check(ts, c, "Interface") THEN interface_definition(ts, c)
    ELSE AssignmentOrExpression(ts, c)

\* the loop of parse
RECURSIVE ParseLoop(_, _, _)
ParseLoop(ts, c, statements) ==
    IF is_at_end(ts, c) THEN POk(statements, c)
    ELSE IF check(ts, c, "Newline")
         THEN The({ ParseLoop(ts, c1, statements) : c1 \in {advance(ts, c)} })
    ELSE The({ IF r.st # "ok" THEN r ELSE ParseLoop(ts, r.current, Append(statements, r.val))
               : r \in {statement(ts, c)} })

\* Parser::new(tokens).parse()
parse(ts) == ParseLoop(ts, 0, <<>>)

----------------------------------------------------------------------------
(* The parser run on token sequences that end in Eof: every sequence of at *)
(* most MaxTokens tokens of Alphabet, and the token sequences of Sources.  *)

MaxTokens == 4

Alphabet ==
    << TokIdentifier("a"), TokIdentifier("new"), TokInteger(1), Tok("LeftParen"),
       Tok("RightParen"), Tok("Dot"), Tok("Plus"), Tok("Assign"), Tok("Newline") >>

\* Lexer::tokenize pushes Eof after the tokens of the source
Tokenized(tokens) == Append(tokens, Tok("Eof"))

Sources ==
    << \* print(1
       << TokIdentifier("print"), Tok("LeftParen"), TokInteger(1) >>,
       \* o.m(1
       << TokIdentifier("o"), Tok("Dot"), TokIdentifier("m"), Tok("LeftParen"), TokInteger(1) >>,
       \* print(1)
       << TokIdentifier("print"), Tok("LeftParen"), TokInteger(1), Tok("RightParen") >>,
       \* Int n = 1 + 2 * 3 == 7
       << Tok("Int"), TokIdentifier("n"), Tok("Assign"), TokInteger(1), Tok("Plus"), TokInteger(2),
          Tok("Multiply"), TokInteger(3), Tok("Equal"), TokInteger(7) >>,
       \* P p = P.new()
       << TokIdentifier("P"), TokIdentifier("p"), Tok("Assign"), TokIdentifier("P"), Tok("Dot"),
          TokIdentifier("new"), Tok("LeftParen"), Tok("RightParen") >>,
       \* def f(a:Int b:String) -> Int / a - 1 / end
       << Tok("Def"), TokIdentifier("f"), Tok("LeftParen"), TokIdentifier("a"), Tok("Colon"),
          Tok("Int"), TokIdentifier("b"), Tok("Colon"), Tok("String_"), Tok("RightParen"),
          Tok("Arrow"), Tok("Int"), Tok("Newline"), TokIdentifier("a"), Tok("Minus"),
          TokInteger(1), Tok("Newline"), Tok("End") >>,
       \* if n / print("yes") / else / print("no") / end
       << Tok("If"), TokIdentifier("n"), Tok("Newline"), TokIdentifier("print"), Tok("LeftParen"),
          TokString("yes"), Tok("RightParen"), Tok("Newline"), Tok("Else"), Tok("Newline"),
          TokIdentifier("print"), Tok("LeftParen"), TokString("no"), Tok("RightParen"),
          Tok("Newline"), Tok("End") >>,
       \* class P implements I / Int x / def m(v:Int): void / x / 2 / end / end
       << Tok("Class"), TokIdentifier("P"), Tok("Implements"), TokIdentifier("I"), Tok("Newline"),
          Tok("Int"), TokIdentifier("x"), Tok("Newline"), Tok("Def"), TokIdentifier("m"),
          Tok("LeftParen"), TokIdentifier("v"), Tok("Colon"), Tok("Int"), Tok("RightParen"),
          Tok("Colon"), Tok("Void"), Tok("Newline"), TokIdentifier("x"), Tok("Divide"),
          TokInteger(2), Tok("Newline"), Tok("End"), Tok("Newline"), Tok("End") >>,
       \* interface I / def m(v:Int): P / end
       << Tok("Interface"), TokIdentifier("I"), Tok("Newline"), Tok("Def"), TokIdentifier("m"),
          Tok("LeftParen"), TokIdentifier("v"), Tok("Colon"), Tok("Int"), Tok("RightParen"),
          Tok("Colon"), TokIdentifier("P"), Tok("Newline"), Tok("End") >>,
       \* print(
       << TokIdentifier("print"), Tok("LeftParen") >>,
       \* def f(a:Int
       << Tok("Def"), TokIdentifier("f"), Tok("LeftParen"), TokIdentifier("a"), Tok("Colon"),
          Tok("Int") >>,
       \* Int a = 1
       << Tok("Int"), TokIdentifier("a"), Tok("Assign"), TokInteger(1) >>,
       \* Int b = 2
       << Tok("Int"), TokIdentifier("b"), Tok("Assign"), TokInteger(2) >> >>

\* no operation has run in this behaviour yet
Fresh == parsed = NoParse /\ status = "running" /\ executed = 0 /\ opcall = NoOpCall

\* Parser::new(tokens).parse()
Parse(tokens) ==
    /\ \E r \in {parse(tokens)} :
           parsed' = [tokens |-> tokens, st |-> r.st, err |-> r.err, program |-> r.val]
    /\ UNCHANGED <<environment, stdout, status, executed, overflow_checks, last, opcall>>

ParseTokens ==
    /\ Fresh
    /\ \E k \in 0..MaxTokens : \E f \in [1..k -> 1..Len(Alphabet)] :
           \E tokens \in {Tokenized([i \in 1..k |-> Alphabet[f[i]]])} : Parse(tokens)

ParseSource ==
    /\ Fresh
    /\ \E i \in 1..Len(Sources) : \E tokens \in {Tokenized(Sources[i])} : Parse(tokens)

\* the tokens of n1 op n2 op ... : at most MaxOperators binary operators
\* between identifiers
MaxOperators == 3
OperatorTokens == <<"Multiply", "Divide", "Plus", "Minus", "Equal">>
OperandNames == <<"n1", "n2", "n3", "n4", "n5", "n6">>
Operand(i) == TokIdentifier(OperandNames[((i - 1) % Len(OperandNames)) + 1])
Chain(ops) ==
    [i \in 1..(2 * Len(ops) + 1) |->
        IF i % 2 = 1 THEN Operand((i + 1) \div 2) ELSE Tok(OperatorTokens[ops[i \div 2]])]

ParseOperators ==
    /\ Fresh
    /\ \E k \in 1..MaxOperators : \E ops \in [1..k -> 1..Len(OperatorTokens)] :
           \E tokens \in {Tokenized(Chain(ops))} : Parse(tokens)

\* the sources that parse into one statement, and two of them one after the
\* other, with a Newline between them or with nothing
Statements == {3, 4, 6, 7, 8, 9, 12, 13}
Separators == {<<>>, <<Tok("Newline")>>}

ParsePair ==
    /\ Fresh
    /\ \E i \in Statements : \E j \in Statements : \E separator \in Separators :
           \E tokens \in {Tokenized(Sources[i] \o separator \o Sources[j])} : Parse(tokens)

\* receiver.name, receiver.name() and receiver.name(arguments): the tokens
\* of each part with the expression they stand for
Receivers ==
    << [tokens |-> <<TokIdentifier("P")>>, expr |-> EIdentifier("P")],
       [tokens |-> <<TokIdentifier("a")>>, expr |-> EIdentifier("a")],
       [tokens |-> <<Tok("LeftParen"), TokIdentifier("a"), Tok("RightParen")>>,
        expr |-> EIdentifier("a")],
       [tokens |-> <<TokInteger(1)>>, expr |-> EInteger(1)],
       [tokens |-> <<TokString(<<"a">>)>>, expr |-> EString(<<"a">>)],
       [tokens |-> <<TokIdentifier("f"), Tok("LeftParen"), Tok("RightParen")>>,
        expr |-> EFunctionCall("f", <<>>)],
       [tokens |-> <<TokIdentifier("a"), Tok("Dot"), TokIdentifier("b")>>,
        expr |-> EFieldAccess(EIdentifier("a"), "b")],
       [tokens |-> <<TokIdentifier("P"), Tok("Dot"), TokIdentifier("new"), Tok("LeftParen"),
                     Tok("RightParen")>>,
        expr |-> EObjectCreation("P")] >>
PostfixNames == {"new", "m", "news", "New"}
ArgumentLists ==
    << [tokens |-> <<>>, parenthesized |-> FALSE, arguments |-> <<>>],
       [tokens |-> <<Tok("LeftParen"), Tok("RightParen")>>, parenthesized |-> TRUE,
        arguments |-> <<>>],
       [tokens |-> <<Tok("LeftParen"), TokInteger(1), Tok("RightParen")>>,
        parenthesized |-> TRUE, arguments |-> <<EInteger(1)>>],
       [tokens |-> <<Tok("LeftParen"), TokInteger(1), TokIdentifier("a"), Tok("RightParen")>>,
        parenthesized |-> TRUE, arguments |-> <<EInteger(1), EIdentifier("a")>>] >>
Postfix(receiver, name, list) ==
    Tokenized(receiver.tokens \o <<Tok("Dot"), TokIdentifier(name)>> \o list.tokens)

ParsePostfix ==
    /\ Fresh
    /\ \E i \in DOMAIN Receivers : \E name \in PostfixNames : \E k \in DOMAIN ArgumentLists :
           \E tokens \in {Postfix(Receivers[i], name, ArgumentLists[k])} : Parse(tokens)

NextParse == ParseTokens \/ ParseSource \/ ParseOperators \/ ParsePair \/ ParsePostfix

SpecParse == Init /\ [][NextParse]_vars

----------------------------------------------------------------------------
(* Properties of the interpreter, stated on the last statement executed   *)

Ran == last.statement.s # "none"

\* the interpreter as it was before the last statement
PreMachine ==
    [variables |-> last.pre.variables, functions |-> last.pre.functions,
     classes |-> last.pre.classes, interfaces |-> last.pre.interfaces,
     out |-> last.pre_out, calls |-> <<>>, branches |-> <<>>,
     steps |-> <<>>, blocks |-> <<>>, cur |-> 0, nblocks |-> 0]

\* Option<Value>: what a table binds a name to
Binding(table, name) == IF name \in DOMAIN table THEN Some(table[name]) ELSE None

\* C1: after a function or method call that returns normally, nested and
\* recursive calls included, the variables table equals the table as it was
\* immediately before the call.
C1_CallRestoresVariables ==
    Ran => \A i \in 1..Len(last.calls) :
              last.calls[i].st = "ok" => last.calls[i].post = last.calls[i].entry

\* a call nested in another returned normally after its callee rebound a
\* variable of the caller and created one of its own
C1_Witness ==
    /\ Ran
    /\ Len(last.calls) >= 2
    /\ \E i \in 1..Len(last.calls) :
          LET c == last.calls[i]
          IN /\ c.st = "ok"
             /\ \E x \in DOMAIN c.entry : x \in DOMAIN c.inner /\ c.inner[x] # c.entry[x]
             /\ (DOMAIN c.inner) \ (DOMAIN c.entry) # {}

\* C2: when a function or method call exits with a runtime error, the
\* variables table is restored to the snapshot taken for the call.
C2_FailedCallRestoresVariables ==
    Ran => \A i \in 1..Len(last.calls) :
              last.calls[i].st = "err" => last.calls[i].post = last.calls[i].pre

\* C4: a typed declaration that fails leaves its name bound as it was before
\* the statement (unbound if it was unbound).
C4_FailedDeclarationKeepsBinding ==
    (Ran /\ last.statement.s = "VariableDeclaration" /\ last.st = "err")
        => Binding(environment.variables, last.statement.name)
              = Binding(last.pre.variables, last.statement.name)

\* the compatibility of a declared type and a value, as C5 words it
C5_Compatible(t, v) ==
    CASE t.tag = "Int" -> v.kind = "Integer"
      [] t.tag = "String" -> v.kind = "String"
      [] t.tag = "Void" -> v.kind = "Void"
      [] t.tag = "Custom" -> v.kind = "Object" /\ v.class_name = t.name

\* C5: a declaration whose initializer evaluates to v binds the name to v
\* (over any earlier binding) and carries no value when v's kind is compatible
\* with the declared type, and is a TypeMismatch error when it is not.
C5_DeclarationBindsValue ==
    (Ran /\ last.statement.s = "VariableDeclaration")
        => LET v == evaluate_expression(last.statement.value, PreMachine, MaxDepth)
           IN v.st = "ok"
                 => IF C5_Compatible(last.statement.var_type, v.val)
                    THEN /\ last.st = "ok"
                         /\ Binding(environment.variables, last.statement.name) = Some(v.val)
                         /\ last.carried = None
                    ELSE /\ last.st = "err"
                         /\ last.err = TypeMismatch
                         /\ status = "error"

\* a declaration gave a name that was already bound another value
C5_Witness ==
    /\ Ran
    /\ last.statement.s = "VariableDeclaration"
    /\ last.st = "ok"
    /\ last.statement.name \in DOMAIN last.pre.variables
    /\ last.pre.variables[last.statement.name] # environment.variables[last.statement.name]

\* C7: a method call on a variable holding an Object that returns normally
\* leaves that variable bound to an equal Object.
C7_ReceiverUnchanged ==
    Ran => \A i \in 1..Len(last.calls) :
              LET c == last.calls[i]
              IN (/\ c.st = "ok"
                  /\ c.call.e = "MethodCall"
                  /\ c.call.object.e = "Identifier"
                  /\ c.call.object.name \in DOMAIN c.entry
                  /\ c.entry[c.call.object.name].kind = "Object")
                    => Binding(c.post, c.call.object.name) = Some(c.entry[c.call.object.name])

\* a method returned normally after rebinding both `this` and the variable
\* its receiver was read from
C7_Witness ==
    /\ Ran
    /\ \E i \in 1..Len(last.calls) :
          LET c == last.calls[i]
          IN /\ c.st = "ok"
             /\ c.call.e = "MethodCall"
             /\ c.call.object.e = "Identifier"
             /\ c.call.object.name \in DOMAIN c.entry
             /\ c.entry[c.call.object.name].kind = "Object"
             /\ c.inner["this"] # c.entry[c.call.object.name]
             /\ c.inner[c.call.object.name] # c.entry[c.call.object.name]

\* the truthiness of a value, as C8 words it
C8_Truthy(v) ==
    \/ v.kind = "Integer" /\ v.n # 0
    \/ v.kind = "String" /\ Len(v.s) > 0
    \/ v.kind \in {"Function", "Object"}

\* C8: an If takes its then-branch iff its condition is truthy; a falsy
\* condition runs the else-branch if there is one, and otherwise nothing,
\* carrying no value.  `Int n = 0` / `if n` / `print("yes")` / `else` /
\* `print("no")` / `end` prints exactly `no`.
C8_IfFollowsTruthiness ==
    Ran =>
      /\ \A i \in 1..Len(last.branches) :
            LET b == last.branches[i]
            IN /\ (b.branch = "then") <=> C8_Truthy(b.cond)
               /\ b.branch \in {"then", "else", "none"}
      /\ (/\ last.statement.s = "If"
          /\ last.st = "ok"
          /\ last.statement.then_branch = <<Yes>>
          /\ last.statement.else_branch \in {None, Some(<<No>>)})
            => LET c == evaluate_expression(last.statement.condition, PreMachine, MaxDepth).val
               IN IF C8_Truthy(c)
                  THEN /\ stdout = Append(last.pre_out, <<"y", "e", "s">>)
                       /\ last.carried = Some(VString(<<>>))
                  ELSE IF last.statement.else_branch # None
                  THEN /\ stdout = Append(last.pre_out, <<"n", "o">>)
                       /\ last.carried = Some(VString(<<>>))
                  ELSE /\ stdout = last.pre_out
                       /\ last.carried = None
                       /\ environment = last.pre

\* the program of C8 has run: `Int n = 0`, then the If, and `no` is the output
C8_Witness ==
    /\ Ran
    /\ executed = 2
    /\ last.statement = SIf(Id("n"), <<Yes>>, Some(<<No>>))
    /\ last.pre.variables = Insert(EmptyMap, "n", VInteger(0))
    /\ stdout = <<(<<"n", "o">>)>>

\* the zero value of a declared type, as C9 words it
C9_Zero(t) ==
    CASE t.tag = "Int" -> VInteger(0)
      [] t.tag = "String" -> VString(<<>>)
      [] OTHER -> VVoid

\* C9: a field access on a value that is no Object is the NotAnObject error;
\* on an Object just made from class C it is the zero value of the field's
\* declared type when C declares the field, and FieldNotFound when not.
C9_FieldAccess ==
    (Ran /\ last.statement.s = "Expression" /\ last.statement.expr.e = "FieldAccess")
        => LET object == last.statement.expr.object
               field == last.statement.expr.field
               receiver == evaluate_expression(object, PreMachine, MaxDepth)
           IN /\ (receiver.st = "ok" /\ receiver.val.kind # "Object")
                    => last.st = "err" /\ last.err = FieldOnNonObject
              /\ (object.e = "ObjectCreation" /\ object.class_name \in DOMAIN last.pre.classes)
                    => LET declared == last.pre.classes[object.class_name].fields
                           named == {i \in 1..Len(declared) : declared[i].name = field}
                       IN IF named = {}
                          THEN last.st = "err" /\ last.err = FieldNotFound
                          ELSE /\ last.st = "ok"
                               /\ \E i \in named :
                                     /\ \A j \in named : j <= i
                                     /\ last.carried = Some(C9_Zero(declared[i].field_type))

\* the String field of a new object was read: it is the empty String
C9_Witness ==
    /\ Ran
    /\ last.statement = SExpression(EFieldAccess(EObjectCreation("P"), "s"))
    /\ last.st = "ok"
    /\ last.carried = Some(VString(<<>>))

----------------------------------------------------------------------------
(* Properties of the binary operator helpers (under SpecOps)               *)

Applied == opcall.operator # "none"

\* C3: Divide of an Integer by Integer 0 is the DivisionByZero error value:
\* never a Value, never a crash of the host.
C3_DivideByZero ==
    (Applied /\ opcall.operator = "Divide"
       /\ opcall.left.kind = "Integer" /\ opcall.right = VInteger(0))
        => opcall.st = "err" /\ opcall.err = DivisionByZero

\* the least Integer was divided by 0
C3_Witness ==
    /\ Applied
    /\ opcall.operator = "Divide"
    /\ opcall.left = VInteger(IntMin)
    /\ opcall.right = VInteger(0)
    /\ opcall.st = "err"

\* C6 as stated: Equal is Integer 0 for operands of differing kinds and
\* Integer 1 for operands of equal kind and equal value, for every kind.
C6_EqualForEveryKind ==
    (Applied /\ opcall.operator = "Equal")
        => /\ opcall.st = "ok"
           /\ opcall.val \in {VInteger(0), VInteger(1)}
           /\ opcall.left.kind # opcall.right.kind => opcall.val = VInteger(0)
           /\ (opcall.left.kind = opcall.right.kind /\ opcall.left = opcall.right)
                 => opcall.val = VInteger(1)

\* C6, amended: Equal never raises an error; it is Integer 1 exactly when
\* both operands are Integers of the same number or both are Strings of the
\* same text, and Integer 0 for every other pairing (operands of differing
\* kinds, and any two Objects, Functions or Voids, equal or not).
C6_EqualOfIntegersAndStrings ==
    (Applied /\ opcall.operator = "Equal")
        => /\ opcall.st = "ok"
           /\ LET same ==
                      \/ /\ opcall.left.kind = "Integer" /\ opcall.right.kind = "Integer"
                         /\ opcall.left.n = opcall.right.n
                      \/ /\ opcall.left.kind = "String" /\ opcall.right.kind = "String"
                         /\ opcall.left.s = opcall.right.s
              IN opcall.val = VInteger(IF same THEN 1 ELSE 0)

\* two equal Objects were compared, and the answer was Integer 0
C6_Witness ==
    /\ Applied
    /\ opcall.operator = "Equal"
    /\ opcall.left.kind = "Object"
    /\ opcall.left = opcall.right
    /\ opcall.val = VInteger(0)


----------------------------------------------------------------------------
(* Properties of the parser, stated on the run of Parser::parse             *)

Parsed == parsed # NoParse

\* the token types of a sequence
Types(tokens) == [i \in 1..Len(tokens) |-> tokens[i].t]

\* the tokens of `print(1` or of `obj.m(1`, followed by Eof: an argument
\* list that is still open when Eof is reached
OpenArgumentList(tokens) ==
    \/ Types(tokens) = <<"Identifier", "LeftParen", "Integer", "Eof">>
    \/ Types(tokens) = <<"Identifier", "Dot", "Identifier", "LeftParen", "Integer", "Eof">>

\* C10: Parser::parse ends on every token sequence that ends in Eof, in a
\* Program or in a syntax error, and an argument list that is still open at
\* Eof ends in the error "Expected ')'".
C10_ParseTerminates ==
    Parsed =>
        /\ parsed.st \in {"ok", "err"}
        /\ OpenArgumentList(parsed.tokens) =>
               (parsed.st = "err" /\ parsed.err = "Expected ')'")

\* the names of the model that begin with an upper-case letter
CapitalizedNames == {"P", "Q", "I"}

\* the tokens are a capitalized identifier followed by what, after `Int`,
\* parses as one VariableDeclaration
CustomDeclarationTokens(tokens) ==
    /\ tokens[1].t = "Identifier"
    /\ tokens[1].name \in CapitalizedNames
    /\ \E as_int \in {parse(<<Tok("Int")>> \o Tail(tokens))} :
           /\ as_int.st = "ok"
           /\ Len(as_int.val) = 1
           /\ as_int.val[1].s = "VariableDeclaration"

\* C11: a statement led by a capitalized identifier, then an identifier, `=`
\* and an expression is parsed as one VariableDeclaration whose var_type is
\* Custom(<the leading name>), exactly as the same statement led by `Int` is
\* parsed as one VariableDeclaration whose var_type is Int.
C11_CapitalizedDeclaration ==
    (Parsed /\ CustomDeclarationTokens(parsed.tokens)) =>
        \E as_int \in {parse(<<Tok("Int")>> \o Tail(parsed.tokens))} :
            /\ as_int.val[1].var_type = TInt
            /\ parsed.st = "ok"
            /\ parsed.program =
                   <<[as_int.val[1] EXCEPT !.var_type = TCustom(parsed.tokens[1].name)]>>

----------------------------------------------------------------------------
(* Properties of interpret and of blocks, stated on the log of statements   *)

\* the index in the log of the first statement left with an error, or 0
FirstError(steps) ==
    LET errors == {i \in 1..Len(steps) : steps[i].ev = "exit" /\ steps[i].st = "err"}
    IN IF errors = {} THEN 0 ELSE CHOOSE i \in errors : \A j \in errors : i <= j

\* after the first error the log holds only the enclosing statements, left
\* with that error, with the tables and the output as the error found them
AbortedAt(steps, e) ==
    \A j \in (e + 1)..Len(steps) :
        /\ steps[j].ev = "exit"
        /\ steps[j].st = "err"
        /\ steps[j].err = steps[e].err
        /\ Tables(steps[j]) = Tables(steps[e])
        /\ steps[j].out = steps[e].out

\* C12: once a statement raises a runtime error, no statement is executed
\* after it, in its block, in any enclosing block or body, or in the
\* program: interpret returns that error with the tables and the output as
\* the failing statement left them, and nothing changes afterwards.
C12_ErrorAborts ==
    [][ /\ status = "error" => UNCHANGED <<environment, stdout, executed, last>>
        /\ (last'.statement # NoStatement /\ FirstError(last'.steps) > 0) =>
               LET e == FirstError(last'.steps)
               IN /\ AbortedAt(last'.steps, e)
                  /\ status' = "error"
                  /\ last'.err = last'.steps[e].err
                  /\ environment' = Tables(last'.steps[e])
                  /\ stdout' = last'.steps[e].out ]_vars

\* k(0) fails at `10 / p`, inside the If of the body of k, with statements
\* after it in the branch and in the body
C12_Witness ==
    /\ Ran
    /\ status = "error"
    /\ last.statement = SExpression(Call("k", <<Lit(0)>>))
    /\ last.err = DivisionByZero
    /\ FirstError(last.steps) \in 1..(Len(last.steps) - 2)

\* the events of the log that belong to the block `block`
EventsOf(steps, block) == SelectSeq(steps, LAMBDA ev : ev.block = block)

\* C13: every step of the loop of interpret executes one top-level statement
\* exactly once (the log starts with its entry and ends with its exit, and
\* holds no other top-level event); the loop goes on after a statement that
\* succeeded, whether or not it carried a value, and ends with the error of
\* the first statement that fails; Ok (status "done") is returned only from
\* a loop no statement of which has failed.
C13_InterpretRunsEachStatementOnce ==
    [][ /\ executed' = executed + 1 =>
               /\ status = "running"
               /\ Len(last'.steps) >= 2
               /\ last'.steps[1] = [ev |-> "enter", block |-> 0, statement |-> last'.statement,
                                     variables |-> environment.variables]
               /\ last'.steps[Len(last'.steps)].ev = "exit"
               /\ last'.steps[Len(last'.steps)].statement = last'.statement
               /\ last'.steps[Len(last'.steps)].st = last'.st
               /\ Len(EventsOf(last'.steps, 0)) = 2
               /\ last'.st = "ok" => status' = "running"
               /\ last'.st = "err" => status' = "error"
               /\ status' \in {"running", "error", "panic"}
        /\ executed' = executed =>
               /\ status = "running"
               /\ status' = "done"
               /\ Ran => last.st = "ok"
               /\ UNCHANGED <<environment, stdout, last>> ]_vars

\* the second statement of a program carried a value and the loop goes on;
\* the first one printed without binding or defining anything, so it was an
\* expression statement or an If, and carried the value of print
C13_Witness ==
    /\ Ran
    /\ executed = 2
    /\ status = "running"
    /\ last.carried # None
    /\ last.pre_out # <<>>
    /\ last.pre = [EnvironmentNew EXCEPT !.variables = EmptyMap]

----------------------------------------------------------------------------
(* Precedence and associativity of the binary operators                     *)

\* tokens is identifier (operator identifier)+ Eof
OperatorChain(tokens) ==
    /\ Len(tokens) >= 4
    /\ Len(tokens) % 2 = 0
    /\ tokens[Len(tokens)].t = "Eof"
    /\ \A i \in 1..(Len(tokens) - 1) :
           IF i % 2 = 1 THEN tokens[i].t = "Identifier"
           ELSE tokens[i].t \in {"Multiply", "Divide", "Plus", "Minus", "Equal"}

\* how tightly the operator of a token binds, and the BinaryOperator it is
Level(token) ==
    CASE token.t \in {"Multiply", "Divide"} -> 3
      [] token.t \in {"Plus", "Minus"} -> 2
      [] token.t = "Equal" -> 1
BinaryOperatorOf(token) ==
    CASE token.t = "Plus" -> "Add"
      [] token.t = "Minus" -> "Subtract"
      [] OTHER -> token.t

\* the tree of tokens[lo..hi] by the rules of precedence: the root is the
\* last of the operators that bind least, its operands are the trees of the
\* tokens on its two sides
RECURSIVE TreeOf(_, _, _)
TreeOf(tokens, lo, hi) ==
    IF lo = hi THEN EIdentifier(tokens[lo].name)
    ELSE LET operators == {i \in (lo + 1)..(hi - 1) : i % 2 = 0}
             root == CHOOSE i \in operators :
                         \A j \in operators :
                             \/ Level(tokens[j]) > Level(tokens[i])
                             \/ Level(tokens[j]) = Level(tokens[i]) /\ j <= i
         IN EBinary(TreeOf(tokens, lo, root - 1), BinaryOperatorOf(tokens[root]),
                    TreeOf(tokens, root + 1, hi))

\* C14: * and / bind tighter than + and -, which bind tighter than ==, and
\* each level is left-associative: a chain of identifiers and binary
\* operators parses as one expression statement whose tree is the one the
\* rules of precedence give (n1 + n2 as Binary(n1, Add, n2)).
C14_Precedence ==
    (Parsed /\ OperatorChain(parsed.tokens)) =>
        /\ parsed.st = "ok"
        /\ parsed.program =
               <<SExpression(TreeOf(parsed.tokens, 1, Len(parsed.tokens) - 1))>>

\* n1 - n2 - n3 * n4 parsed as (n1 - n2) - (n3 * n4)
C14_Witness ==
    /\ Parsed
    /\ parsed.tokens = <<TokIdentifier("n1"), Tok("Minus"), TokIdentifier("n2"), Tok("Minus"),
                         TokIdentifier("n3"), Tok("Multiply"), TokIdentifier("n4"), Tok("Eof")>>
    /\ parsed.st = "ok"
    /\ parsed.program =
           <<SExpression(EBinary(EBinary(EIdentifier("n1"), "Subtract", EIdentifier("n2")),
                                 "Subtract",
                                 EBinary(EIdentifier("n3"), "Multiply", EIdentifier("n4"))))>>

----------------------------------------------------------------------------
(* Blocks: the order of their statements and the value they carry           *)

\* the statements of block b ran in order, each after the one before it had
\* succeeded without carrying a value, and b carries what the last statement
\* that ran carried
BlockInOrder(b) ==
    LET events == EventsOf(last.steps, b.id)
        n == (Len(events) + 1) \div 2
    IN /\ n <= Len(b.body)
       /\ \A i \in 1..Len(events) :
              /\ events[i].statement = b.body[(i + 1) \div 2]
              /\ events[i].ev = IF i % 2 = 1 THEN "enter" ELSE "exit"
       /\ \A i \in 1..(n - 1) : events[2 * i].st = "ok" /\ events[2 * i].carried = None
       /\ b.st = "ok" =>
              /\ Len(events) = 2 * n
              /\ n > 0 => events[2 * n].st = "ok"
              /\ IF n > 0 /\ events[2 * n].carried # None
                 THEN b.carried = events[2 * n].carried
                 ELSE n = Len(b.body) /\ b.carried = None

\* the entry of the If statement left at step j of the log
EntryOf(j) ==
    CHOOSE i \in 1..(j - 1) :
        /\ last.steps[i].ev = "enter"
        /\ last.steps[i].block = last.steps[j].block
        /\ \A k \in (i + 1)..(j - 1) : last.steps[k].block # last.steps[j].block

\* what the statement left at step j carries by its kind: an expression
\* statement always carries, an If carries what its branch carried, the
\* other statements carry nothing
CarriesByKind(j) ==
    LET ev == last.steps[j]
    IN CASE ev.statement.s = "Expression" -> ev.carried # None
         [] ev.statement.s = "If" ->
               \E i \in 1..Len(last.branches) :
                   LET taken == last.branches[i]
                   IN /\ taken.in = ev.block
                      /\ taken.at >= EntryOf(j) /\ taken.at < j
                      /\ IF taken.block = 0 THEN ev.carried = None
                         ELSE \E k \in 1..Len(last.blocks) :
                                  /\ last.blocks[k].id = taken.block
                                  /\ last.blocks[k].body =
                                         (IF taken.branch = "then" THEN ev.statement.then_branch
                                          ELSE ev.statement.else_branch[1])
                                  /\ ev.carried = last.blocks[k].carried
         [] OTHER -> ev.carried = None

\* C15: in a block (a body or an If branch) the statements run in order up
\* to the first one that carries a value, and that value is the result of
\* the block; every expression statement carries its value (the empty String
\* of print and Void included), an If carries what its branch carried, and
\* declarations, definitions and assignments never carry.
C15_BlockStopsAtFirstCarried ==
    Ran =>
        /\ \A k \in 1..Len(last.blocks) : BlockInOrder(last.blocks[k])
        /\ \A j \in 1..Len(last.steps) :
               (last.steps[j].ev = "exit" /\ last.steps[j].st = "ok") => CarriesByKind(j)

\* k(2): the body of k binds a, its If carries the 5 of `10 / p` out of the
\* branch, and neither print("in") nor print("late") runs
C15_Witness ==
    /\ Ran
    /\ last.statement = SExpression(Call("k", <<Lit(2)>>))
    /\ last.st = "ok"
    /\ stdout = last.pre_out
    /\ \E k \in 1..Len(last.blocks) :
           /\ last.blocks[k].body = DefK.body
           /\ last.blocks[k].carried = Some(VInteger(5))
           /\ Len(EventsOf(last.steps, last.blocks[k].id)) = 4

----------------------------------------------------------------------------
(* Calls: their result, and the checks made before the body runs            *)

\* the value a call returns when its body carries nothing
C16_Zero(return_type) ==
    CASE return_type = TInt -> VInteger(0)
      [] return_type = TString -> VString(<<>>)
      [] OTHER -> VVoid

\* the block with the given id in the log of blocks
BlockOf(id) == last.blocks[CHOOSE k \in 1..Len(last.blocks) : last.blocks[k].id = id]

\* C16: a call of a user-defined function or method that succeeds returns
\* the first value its body carried, of whatever kind, and the zero value of
\* the declared return type when the body carried none; an expression
\* statement that is such a call carries the value the call returned.
C16_CallReturnsFirstCarried ==
    Ran =>
        /\ \A i \in 1..Len(last.calls) :
               LET c == last.calls[i]
               IN c.st = "ok" =>
                      /\ BlockOf(c.block).st = "ok"
                      /\ c.val = IF BlockOf(c.block).carried = None
                                 THEN C16_Zero(c.return_type)
                                 ELSE BlockOf(c.block).carried[1]
        /\ ( /\ last.st = "ok"
             /\ last.statement.s = "Expression"
             /\ last.statement.expr.e = "FunctionCall"
             /\ last.statement.expr.name # "print" ) =>
               /\ Len(last.calls) > 0
               /\ last.calls[Len(last.calls)].call = last.statement.expr
               /\ last.calls[Len(last.calls)].return_type =
                      last.pre.functions[last.statement.expr.name].return_type
               /\ last.calls[Len(last.calls)].block > 0
               /\ BlockOf(last.calls[Len(last.calls)].block).body =
                      last.pre.functions[last.statement.expr.name].body
               /\ last.carried = Some(last.calls[Len(last.calls)].val)

\* k(2) returns the Integer 5 its body carried although k is declared to
\* return String
C16_Witness ==
    /\ Ran
    /\ last.statement = SExpression(Call("k", <<Lit(2)>>))
    /\ last.st = "ok"
    /\ last.pre.functions["k"].return_type = TString
    /\ last.carried = Some(VInteger(5))

\* the call the last statement makes first when it is an expression
\* statement or a declaration whose whole expression is a function call
\* other than print
DirectCall ==
    LET made == IF last.statement.s = "Expression" THEN last.statement.expr
                      ELSE IF last.statement.s = "VariableDeclaration" THEN last.statement.value
                      ELSE Lit(0)
    IN IF made.e = "FunctionCall" /\ made.name # "print"
       THEN Some(made) ELSE None

\* the last statement failed with err and changed neither the tables nor
\* the output, and no call reached its body
FailedUntouched(err) ==
    /\ last.st = "err"
    /\ last.err = err
    /\ status = "error"
    /\ environment = last.pre
    /\ stdout = last.pre_out
    /\ last.calls = <<>>
    /\ last.blocks = <<>>

\* C17: a call of a name other than print that the functions table lacks is
\* the UndefinedFunction error, and a call with another number of arguments
\* than the function has parameters is the ArityError; either way no
\* argument is evaluated (nothing is printed) and the variables stay as they
\* were.
C17_UndefinedAndArity ==
    (Ran /\ DirectCall # None) =>
        LET call == DirectCall[1]
        IN IF call.name \notin DOMAIN last.pre.functions
           THEN FailedUntouched(UndefinedFunction)
           ELSE Len(call.arguments) # Len(last.pre.functions[call.name].parameters) =>
                    FailedUntouched(FunctionArity)

\* f(print(1) print(2)) with f of one parameter: the ArityError, and
\* neither 1 nor 2 is printed
C17_Witness ==
    /\ Ran
    /\ last.statement = SExpression(Call("f", <<Call("print", <<Lit(1)>>), Call("print", <<Lit(2)>>)>>))
    /\ "f" \in DOMAIN last.pre.functions
    /\ last.err = FunctionArity
    /\ stdout = last.pre_out
    /\ environment = last.pre

\* an argument whose value is plain to see: a literal, a new object of a
\* defined class, or a variable bound before the call that no parameter of
\* the call shadows
PlainArgument(argument, parameters) ==
    \/ argument.e = "Integer"
    \/ argument.e = "ObjectCreation" /\ argument.class_name \in DOMAIN last.pre.classes
    \/ argument.e = "String" /\ \A i \in 1..Len(argument.s) : argument.s[i] # "#"
    \/ /\ argument.e = "Identifier"
       /\ argument.name \in DOMAIN last.pre.variables
       /\ \A i \in 1..Len(parameters) : parameters[i].name # argument.name
PlainValue(argument) ==
    CASE argument.e = "Integer" -> VInteger(argument.n)
      [] argument.e = "String" -> VString(argument.s)
      [] argument.e = "Identifier" -> last.pre.variables[argument.name]
      [] argument.e = "ObjectCreation" ->
            VObject(argument.class_name,
                    NewObjectFields(last.pre.classes[argument.class_name].fields))

\* the compatibility of a value with a declared type, as for declarations
C18_Compatible(t, v) ==
    \/ t = TInt /\ v.kind = "Integer"
    \/ t = TString /\ v.kind = "String"
    \/ t = TVoid /\ v.kind = "Void"
    \/ t.tag = "Custom" /\ v.kind = "Object" /\ v.class_name = t.name

\* the variables once the first n parameters are bound to their arguments
RECURSIVE BoundUpTo(_, _, _)
BoundUpTo(parameters, arguments, n) ==
    IF n = 0 THEN last.pre.variables
    ELSE Insert(BoundUpTo(parameters, arguments, n - 1),
                parameters[n].name, PlainValue(arguments[n]))

\* the function call of the last statement has as many arguments as the
\* function has parameters, all of them plain
PlainFunctionCall ==
    /\ Ran
    /\ DirectCall # None
    /\ DirectCall[1].name \in DOMAIN last.pre.functions
    /\ LET function == last.pre.functions[DirectCall[1].name]
       IN /\ Len(DirectCall[1].arguments) = Len(function.parameters)
          /\ \A i \in 1..Len(function.parameters) :
                 PlainArgument(DirectCall[1].arguments[i], function.parameters)

\* the last statement is a call of a method of the class of the object bound
\* to a variable, with as many plain arguments as the method has parameters
PlainMethodCall ==
    /\ Ran
    /\ last.statement.s = "Expression"
    /\ last.statement.expr.e = "MethodCall"
    /\ last.statement.expr.object.e = "Identifier"
    /\ last.statement.expr.object.name \in DOMAIN last.pre.variables
    /\ LET receiver == last.pre.variables[last.statement.expr.object.name]
       IN /\ receiver.kind = "Object"
          /\ receiver.class_name \in DOMAIN last.pre.classes
          /\ \E i \in 1..Len(last.pre.classes[receiver.class_name].methods) :
                 LET method == last.pre.classes[receiver.class_name].methods[i]
                 IN /\ method.name = last.statement.expr.method
                    /\ \A j \in 1..(i - 1) :
                           last.pre.classes[receiver.class_name].methods[j].name # method.name
                    /\ Len(method.parameters) = Len(last.statement.expr.arguments)
                    /\ \A j \in 1..Len(method.parameters) :
                           PlainArgument(last.statement.expr.arguments[j],
                                         method.parameters \o <<[name |-> "this"]>>)

\* C18: a function call checks each argument value against the declared
\* type of its parameter with the rule of declarations; the first argument
\* that is incompatible, in the order of the parameters, ends the call with
\* the argument type mismatch before the body runs (the parameters before it
\* are bound, no later one is), and with no incompatible argument the body
\* runs.  A method call binds its arguments without a check: with the right
\* number of arguments its body always runs, whatever their kinds.
C18_ArgumentTypes ==
    /\ PlainFunctionCall =>
           LET call == DirectCall[1]
               function == last.pre.functions[call.name]
               wrong == {i \in 1..Len(function.parameters) :
                            ~C18_Compatible(function.parameters[i].param_type,
                                            PlainValue(call.arguments[i]))}
           IN /\ Len(last.calls) > 0
              /\ last.calls[Len(last.calls)].call = call
              /\ IF wrong = {}
                 THEN last.calls[Len(last.calls)].block > 0
                 ELSE LET first == CHOOSE i \in wrong : \A j \in wrong : i <= j
                      IN /\ last.st = "err"
                         /\ last.err = ArgumentTypeMismatch
                         /\ last.blocks = <<>>
                         /\ last.calls[Len(last.calls)].inner =
                                BoundUpTo(function.parameters, call.arguments, first - 1)
    /\ PlainMethodCall =>
           /\ Len(last.calls) > 0
           /\ last.calls[Len(last.calls)].call = last.statement.expr
           /\ last.calls[Len(last.calls)].block > 0

\* j(1 2) with def j(c:P q:String): both arguments are incompatible, the
\* call fails at the first with no parameter bound
C18_Witness ==
    /\ Ran
    /\ last.statement = SExpression(Call("j", <<Lit(1), Lit(2)>>))
    /\ last.err = ArgumentTypeMismatch
    /\ Len(last.calls) = 1
    /\ last.calls[1].inner = last.pre.variables

\* the last statement is a method call on a receiver whose value is plain
ReceiverCall ==
    /\ Ran
    /\ last.statement.s = "Expression"
    /\ last.statement.expr.e = "MethodCall"
    /\ PlainArgument(last.statement.expr.object, <<>>)

\* the last statement failed with err
FailedWith(err) == last.st = "err" /\ last.err = err /\ status = "error"

\* C19: a method call on a value that is no Object is the NotAnObject error;
\* on an Object whose class the class table lacks, ClassNotFound; when the
\* class has no method of the called name, MethodNotFound; otherwise the
\* first method of that name in the order of declaration is the one called,
\* and the call is the ArityError when the number of arguments is not the
\* number of its parameters, whether or not a later method of the same name
\* would fit.
C19_MethodCallOrder ==
    ReceiverCall =>
        LET call == last.statement.expr
            receiver == PlainValue(call.object)
        IN IF receiver.kind # "Object" THEN FailedWith(MethodOnNonObject)
           ELSE IF receiver.class_name \notin DOMAIN last.pre.classes
                THEN FailedWith(ClassNotFound)
           ELSE LET methods == last.pre.classes[receiver.class_name].methods
                    named == {i \in 1..Len(methods) : methods[i].name = call.method}
                IN IF named = {} THEN FailedWith(MethodNotFound)
                   ELSE LET selected == methods[CHOOSE i \in named : \A j \in named : i <= j]
                        IN IF Len(selected.parameters) # Len(call.arguments)
                           THEN /\ FailedWith(MethodArity)
                                /\ last.calls = <<>>
                           ELSE /\ Len(last.calls) > 0
                                /\ last.calls[Len(last.calls)].call = call
                                /\ last.calls[Len(last.calls)].return_type = selected.return_type
                                /\ last.calls[Len(last.calls)].block > 0 =>
                                       BlockOf(last.calls[Len(last.calls)].block).body = selected.body

\* R.new().d(1) in class R with def d() before def d(v:Int): the first d is
\* selected and the call is the ArityError although the second d would fit
C19_Witness ==
    /\ Ran
    /\ last.statement = SExpression(EMethodCall(EObjectCreation("R"), "d", <<Lit(1)>>))
    /\ "R" \in DOMAIN last.pre.classes
    /\ last.err = MethodArity

----------------------------------------------------------------------------
(* Object creation                                                          *)

\* the tokens of P.new(print(1))
NewWithArguments ==
    Tokenized(<<TokIdentifier("P"), Tok("Dot"), TokIdentifier("new"), Tok("LeftParen"),
                TokIdentifier("print"), Tok("LeftParen"), TokInteger(1), Tok("RightParen"),
                Tok("RightParen")>>)

\* the last declaration of a field of the given name
DeclaredField(fields_decl, name) ==
    fields_decl[CHOOSE i \in 1..Len(fields_decl) :
                    /\ fields_decl[i].name = name
                    /\ \A j \in (i + 1)..Len(fields_decl) : fields_decl[j].name # name]

\* C20: the creation of an object of class C is the ClassNotFound error when
\* the class table has no C; otherwise it yields an Object of class C whose
\* fields are exactly the declared ones, each with the zero value of its
\* declared type.  The arguments written in C.new(arguments) are dropped by
\* the parser and never evaluated: they print nothing and raise no error.
C20_ObjectCreation ==
    ( /\ Ran
      /\ last.statement.s = "Expression"
      /\ last.statement.expr.e = "ObjectCreation" ) =>
        LET class_name == last.statement.expr.class_name
        IN /\ last.statement = SExpression(EObjectCreation("P")) =>
                  \E r \in {parse(NewWithArguments)} :
                      r.st = "ok" /\ r.val = <<last.statement>>
           /\ stdout = last.pre_out
           /\ environment = last.pre
           /\ IF class_name \notin DOMAIN last.pre.classes
              THEN FailedWith(ClassNotFound)
              ELSE /\ last.st = "ok"
                   /\ last.carried # None
                   /\ last.carried[1].kind = "Object"
                   /\ last.carried[1].class_name = class_name
                   /\ LET fields_decl == last.pre.classes[class_name].fields
                          fields == last.carried[1].fields
                      IN /\ DOMAIN fields =
                                {fields_decl[i].name : i \in 1..Len(fields_decl)}
                         /\ \A name \in DOMAIN fields :
                                fields[name] =
                                    C9_Zero(DeclaredField(fields_decl, name).field_type)

\* P.new(print(1)) run with class P defined: an object with the fields x, s
\* and k of P at 0, "" and Void, and nothing printed
C20_Witness ==
    /\ Ran
    /\ <<last.statement>> = parse(NewWithArguments).val
    /\ last.st = "ok"
    /\ stdout = last.pre_out
    /\ last.carried = Some(VObject("P", [x |-> VInteger(0), s |-> VString(<<>>), k |-> VVoid]))

----------------------------------------------------------------------------
(* Assignment                                                               *)

\* the tokens of a.b = 1
FieldAssignment ==
    Tokenized(<<TokIdentifier("a"), Tok("Dot"), TokIdentifier("b"), Tok("Assign"), TokInteger(1)>>)

\* C21: an assignment whose value evaluates to v binds a bare identifier
\* target to v in the variables table without any type check, whether or
\* not the name was bound before and whatever the kind of its old value;
\* with any other target (a.b = 1, which the parser accepts) it is the
\* UnsupportedAssignmentTarget error and the variables stay as they were.
C21_Assignment ==
    ( /\ Ran
      /\ last.statement.s = "Assignment"
      /\ PlainArgument(last.statement.value, <<>>) ) =>
        IF last.statement.target.e = "Identifier"
        THEN /\ last.st = "ok"
             /\ last.carried = None
             /\ environment =
                    [last.pre EXCEPT !.variables =
                        Insert(@, last.statement.target.name, PlainValue(last.statement.value))]
             /\ stdout = last.pre_out
        ELSE /\ \E r \in {parse(FieldAssignment)} : r.st = "ok" /\ r.val = <<last.statement>>
             /\ FailedWith(UnsupportedAssignmentTarget)
             /\ environment = last.pre
             /\ stdout = last.pre_out

\* n = "a" where n is bound to an Integer: n is bound to the String
C21_Witness ==
    /\ Ran
    /\ last.statement = SAssignment(Id("n"), Str(<<"a">>))
    /\ "n" \in DOMAIN last.pre.variables
    /\ last.pre.variables["n"].kind = "Integer"
    /\ environment.variables["n"] = VString(<<"a">>)

----------------------------------------------------------------------------
(* String literals                                                          *)

\* the positions of the markers #{name} of a text: where "#{" starts, with
\* the first "}" after it
MarkerStarts(s) ==
    {i \in 1..(Len(s) - 2) :
        /\ s[i] = "#" /\ s[i + 1] = "{"
        /\ \E j \in (i + 2)..Len(s) : s[j] = "}"}
MarkerEnd(s, i) == CHOOSE j \in (i + 2)..Len(s) : s[j] = "}" /\ \A k \in (i + 2)..(j - 1) : s[k] # "}"

\* the text with its first marker replaced by the rendering of the variable
\* it names, and unchanged when it has no marker or names no variable
Interpolated(s, variables) ==
    IF MarkerStarts(s) = {} THEN s
    ELSE LET i == CHOOSE i \in MarkerStarts(s) : \A k \in MarkerStarts(s) : i <= k
             j == MarkerEnd(s, i)
             named == {v \in DOMAIN variables : Chars(v) = SubSeq(s, i + 2, j - 1)}
         IN IF named = {} THEN s
            ELSE SubSeq(s, 1, i - 1) \o to_string(variables[CHOOSE v \in named : TRUE])
                     \o SubSeq(s, j + 1, Len(s))

\* C22: a string literal of any text evaluates to a String, never to an
\* error or a crash: verbatim without a marker, with only the first marker
\* #{name} replaced by the rendering of the variable when it is bound, and
\* unchanged when it is not.
C22_StringLiteral ==
    ( /\ Ran
      /\ last.statement.s = "Expression"
      /\ last.statement.expr.e = "String" ) =>
        /\ last.st = "ok"
        /\ last.carried =
               Some(VString(Interpolated(last.statement.expr.s, last.pre.variables)))
        /\ environment = last.pre
        /\ stdout = last.pre_out

----------------------------------------------------------------------------
(* Binary expressions: the order of evaluation                              *)

\* the last statement left the interpreter as the outcome r of an
\* evaluation did
EndsAs(r) ==
    /\ last.st = r.st
    /\ last.st = "err" => last.err = r.err
    /\ last.st = "ok" => last.carried = Some(r.val)
    /\ environment = Tables(r.m)
    /\ stdout = r.m.out

\* C23: a Binary expression evaluates its left operand, then its right
\* operand in what the left one left behind, then applies the operator to
\* the two values: the output and the error of the left operand come before
\* those of the right, a failing left operand ends the evaluation with the
\* right operand untouched, and the error of the operator itself comes only
\* after both operands were evaluated, for Equal as for the others.
C23_BinaryOrder ==
    ( /\ Ran
      /\ last.statement.s = "Expression"
      /\ last.statement.expr.e = "Binary" ) =>
        \E l \in {evaluate_expression(last.statement.expr.left, PreMachine, MaxDepth)} :
            IF l.st # "ok" THEN EndsAs(l)
            ELSE \E r \in {evaluate_expression(last.statement.expr.right, l.m, MaxDepth)} :
                     IF r.st # "ok" THEN EndsAs(r)
                     ELSE \E o \in {ApplyOperator(last.statement.expr.operator, l.val, r.val)} :
                              EndsAs([st |-> o.st, val |-> o.val, err |-> o.err, m |-> r.m])

\* print(1) - print(2): 1 and then 2 are printed before Subtract fails on
\* the two Strings
C23_Witness ==
    /\ Ran
    /\ last.statement =
           SExpression(EBinary(Call("print", <<Lit(1)>>), "Subtract", Call("print", <<Lit(2)>>)))
    /\ last.err = CannotSubtract
    /\ stdout = last.pre_out \o <<<<"1">>, <<"2">>>>

----------------------------------------------------------------------------
(* Definitions made inside a body                                           *)

Definers == {"FunctionDefinition", "ClassDefinition", "InterfaceDefinition"}

\* what a definition registers under its name, and the table it goes to
Registered(definition) ==
    CASE definition.s = "FunctionDefinition" ->
             VFunction(definition.parameters, definition.return_type, definition.body)
      [] definition.s = "ClassDefinition" ->
             [name |-> definition.name, fields |-> definition.fields,
              methods |-> definition.methods, implements |-> definition.implements]
      [] definition.s = "InterfaceDefinition" ->
             [name |-> definition.name, methods |-> definition.methods]
TableOf(tables, kind) ==
    CASE kind = "FunctionDefinition" -> tables.functions
      [] kind = "ClassDefinition" -> tables.classes
      [] kind = "InterfaceDefinition" -> tables.interfaces

\* the steps of the log at which a definition of the kind and name was left
DefinedAt(kind, name) ==
    {j \in 1..Len(last.steps) :
        /\ last.steps[j].ev = "exit"
        /\ last.steps[j].statement.s = kind
        /\ last.steps[j].statement.name = name}

\* C24: a FunctionDefinition, ClassDefinition or InterfaceDefinition executed
\* anywhere in a statement, inside the bodies of calls included, succeeds and
\* leaves its table binding the name to what the last such definition
\* registered, over any earlier entry; the names no definition touched stay
\* as they were; and the variables bound in the body of a call that
\* returned are gone: the variables are those of before the call.
C24_DefinitionsOutliveCalls ==
    Ran =>
        /\ \A kind \in Definers :
               \A name \in DOMAIN TableOf(environment, kind) \cup DOMAIN TableOf(last.pre, kind) :
                   IF DefinedAt(kind, name) = {}
                   THEN Binding(TableOf(environment, kind), name) =
                            Binding(TableOf(last.pre, kind), name)
                   ELSE LET j == CHOOSE j \in DefinedAt(kind, name) :
                                     \A k \in DefinedAt(kind, name) : k <= j
                        IN /\ \A k \in DefinedAt(kind, name) : last.steps[k].st = "ok"
                           /\ Binding(TableOf(environment, kind), name) =
                                  Some(Registered(last.steps[j].statement))
        /\ ( /\ last.st = "ok"
             /\ last.statement.s = "Expression"
             /\ last.statement.expr.e \in {"FunctionCall", "MethodCall"} ) =>
               environment.variables = last.pre.variables

\* d() where f was defined before with another body: after the call f is
\* the function defined in the body of d, class Q and interface I are
\* registered, and the b declared in the body is not bound
C24_Witness ==
    /\ Ran
    /\ last.statement = SExpression(Call("d", <<>>))
    /\ last.st = "ok"
    /\ "f" \in DOMAIN last.pre.functions
    /\ "Q" \notin DOMAIN last.pre.classes
    /\ environment.functions["f"] = Registered(DefD.body[1])
    /\ environment.functions["f"] # last.pre.functions["f"]
    /\ environment.classes["Q"] = Registered(DefD.body[2])
    /\ environment.interfaces["I"] = Registered(DefD.body[3])
    /\ "b" \notin DOMAIN environment.variables

----------------------------------------------------------------------------
(* What a call sees of the variables                                        *)

\* the variables as the first statement of the block found them, when the
\* block ran a statement
FirstSeen(block) ==
    LET events == EventsOf(last.steps, block)
    IN IF events = <<>> THEN None ELSE Some(events[1].variables)

\* the statement left at step j of the log read the variable it names: its
\* value when it was bound, and UndefinedVariable when not
ReadsVariable(j) ==
    LET ev == last.steps[j]
        seen == last.steps[EntryOf(j)].variables
    IN IF ev.statement.expr.name \in DOMAIN seen
       THEN ev.st = "ok" /\ ev.carried = Some(seen[ev.statement.expr.name])
       ELSE ev.st = "err" /\ ev.err = UndefinedVariable

\* C25: the body of a call sees every variable bound at the call site; a
\* variable bound only inside a call is not bound in the caller once the
\* call has returned; a call made by the statements of the program sees the
\* variables of the program as they were before the statement, and so none
\* that was bound only inside another call of that statement; and reading a
\* variable that is not bound is the UndefinedVariable error.
C25_CallVisibility ==
    Ran =>
        /\ \A i \in 1..Len(last.calls) :
               LET c == last.calls[i]
               IN /\ (c.block > 0 /\ FirstSeen(c.block) # None) =>
                          DOMAIN c.entry \subseteq DOMAIN FirstSeen(c.block)[1]
                  /\ c.st = "ok" =>
                          \A x \in DOMAIN c.inner \ DOMAIN c.entry : x \notin DOMAIN c.post
                  /\ c.from = 0 => c.entry = last.pre.variables
        /\ \A j \in 1..Len(last.steps) :
               ( /\ last.steps[j].ev = "exit"
                 /\ last.steps[j].statement.s = "Expression"
                 /\ last.steps[j].statement.expr.e = "Identifier" ) => ReadsVariable(j)

----------------------------------------------------------------------------
(* Statement terminators                                                    *)

\* C26: consume_newline_or_eof consumes one Newline when one is next and
\* nothing otherwise, and never fails; so two statements parse into the same
\* two statements whether a Newline separates them or not, and the tokens of
\* Int a = 1 Int b = 2 are two declarations.
C26_LenientTerminator ==
    Parsed =>
        /\ \A c \in 0..(Len(parsed.tokens) - 1) :
               consume_newline_or_eof(parsed.tokens, c) =
                   IF parsed.tokens[c + 1].t = "Newline" THEN c + 1 ELSE c
        /\ \A i \in Statements : \A j \in Statements : \A separator \in Separators :
               parsed.tokens = Tokenized(Sources[i] \o separator \o Sources[j]) =>
                   \E first \in {parse(Tokenized(Sources[i]))} :
                       \E second \in {parse(Tokenized(Sources[j]))} :
                           /\ first.st = "ok" /\ Len(first.val) = 1
                           /\ second.st = "ok" /\ Len(second.val) = 1
                           /\ parsed.st = "ok"
                           /\ parsed.program = first.val \o second.val

\* Int a = 1 Int b = 2, with no Newline, parsed into the two declarations
C26_Witness ==
    /\ Parsed
    /\ parsed.tokens = <<Tok("Int"), TokIdentifier("a"), Tok("Assign"), TokInteger(1),
                         Tok("Int"), TokIdentifier("b"), Tok("Assign"), TokInteger(2), Tok("Eof")>>
    /\ parsed.st = "ok"
    /\ parsed.program = <<SVariableDeclaration("a", TInt, EInteger(1)),
                          SVariableDeclaration("b", TInt, EInteger(2))>>

----------------------------------------------------------------------------
(* Dot notation                                                             *)

\* C27: receiver.name(arguments) is ObjectCreation(X) exactly when name is
\* new and the receiver is the identifier X, a syntax error when name is new
\* and the receiver is anything else, and MethodCall(receiver, name,
\* arguments) for every other name; receiver.name without parentheses is
\* FieldAccess(receiver, name), for the name new as well.
C27_DotNotation ==
    Parsed =>
        \A i \in DOMAIN Receivers : \A name \in PostfixNames : \A k \in DOMAIN ArgumentLists :
            LET receiver == Receivers[i]
                list == ArgumentLists[k]
            IN parsed.tokens = Postfix(receiver, name, list) =>
                   IF ~list.parenthesized
                   THEN /\ parsed.st = "ok"
                        /\ parsed.program = <<SExpression(EFieldAccess(receiver.expr, name))>>
                   ELSE IF name = "new" /\ receiver.expr.e = "Identifier"
                   THEN /\ parsed.st = "ok"
                        /\ parsed.program = <<SExpression(EObjectCreation(receiver.expr.name))>>
                   ELSE IF name = "new"
                   THEN /\ parsed.st = "err"
                        /\ parsed.err = "'new' can only be called on class names"
                   ELSE /\ parsed.st = "ok"
                        /\ parsed.program =
                               <<SExpression(EMethodCall(receiver.expr, name, list.arguments))>>

\* P.new().new(1) rejected: new called on what is not an identifier
C27_Witness ==
    /\ Parsed
    /\ parsed.tokens = Postfix(Receivers[8], "new", ArgumentLists[3])
    /\ parsed.st = "err"
    /\ parsed.err = "'new' can only be called on class names"

----------------------------------------------------------------------------
(* The built-in print                                                       *)

\* the last statement is a call of print
PrintCall == Ran /\ last.statement.s = "Expression" /\ last.statement.expr.e = "FunctionCall"
                 /\ last.statement.expr.name = "print"

\* an argument of print whose value is plain to see: a plain argument, or the
\* sum of two of them that are Integers and whose sum is in range
PrintedPlain(argument) ==
    \/ PlainArgument(argument, <<>>)
    \/ /\ argument.e = "Binary" /\ argument.operator = "Add"
       /\ PlainArgument(argument.left, <<>>) /\ PlainArgument(argument.right, <<>>)
       /\ PlainValue(argument.left).kind = "Integer"
       /\ PlainValue(argument.right).kind = "Integer"
       /\ PlainValue(argument.left).n + PlainValue(argument.right).n \in IntMin..IntMax
PrintedValue(argument) ==
    IF argument.e = "Binary"
    THEN VInteger(PlainValue(argument.left).n + PlainValue(argument.right).n)
    ELSE PlainValue(argument)

\* the number a text of decimal digits writes, and -1 when it is no such text
DigitValue(ch) ==
    CASE ch = "0" -> 0 [] ch = "1" -> 1 [] ch = "2" -> 2 [] ch = "3" -> 3 [] ch = "4" -> 4
      [] ch = "5" -> 5 [] ch = "6" -> 6 [] ch = "7" -> 7 [] ch = "8" -> 8 [] ch = "9" -> 9
      [] OTHER -> -1
RECURSIVE DecimalValue(_)
DecimalValue(text) ==
    IF Len(text) = 0 \/ DigitValue(text[Len(text)]) < 0 THEN -1
    ELSE IF Len(text) = 1 THEN DigitValue(text[1])
    ELSE IF DecimalValue(SubSeq(text, 1, Len(text) - 1)) < 0 THEN -1
    ELSE 10 * DecimalValue(SubSeq(text, 1, Len(text) - 1)) + DigitValue(text[Len(text)])

\* the line print writes for an Integer or a String
RendersAs(line, value) ==
    CASE value.kind = "Integer" ->
              IF value.n < 0
              THEN /\ Len(line) > 1 /\ line[1] = "-"
                   /\ DecimalValue(Tail(line)) = -value.n
              ELSE /\ DecimalValue(line) = value.n
                   /\ Len(line) > 1 => line[1] # "0"
      [] value.kind = "String" -> line = value.s
      [] OTHER -> TRUE

\* C28: print with exactly one argument evaluates it, appends exactly one
\* line, the decimal digits of an Integer or the text of a String without
\* quotes, returns the empty String and leaves the four tables as they were;
\* with no argument or more than one it is an error, no argument being
\* evaluated and nothing printed.
C28_Print ==
    PrintCall =>
        LET arguments == last.statement.expr.arguments
        IN IF Len(arguments) # 1 THEN FailedUntouched(PrintArity)
           ELSE PrintedPlain(arguments[1]) =>
                    /\ last.st = "ok"
                    /\ last.carried = Some(VString(<<>>))
                    /\ Len(stdout) = Len(last.pre_out) + 1
                    /\ SubSeq(stdout, 1, Len(last.pre_out)) = last.pre_out
                    /\ RendersAs(stdout[Len(stdout)], PrintedValue(arguments[1]))
                    /\ environment = last.pre

\* print(n + 2) with n bound to 1 has printed 3
C28_Witness ==
    /\ PrintCall
    /\ last.statement = Say(EBinary(Id("n"), "Add", Lit(2)))
    /\ "n" \in DOMAIN last.pre.variables
    /\ last.pre.variables["n"] = VInteger(1)
    /\ stdout = Append(last.pre_out, <<"3">>)
    /\ last.carried = Some(VString(<<>>))

----------------------------------------------------------------------------
(* What the arguments of a call see                                         *)

\* the function call of the last statement has as many arguments as the
\* function has parameters, each a literal or a variable of the caller, and
\* each of the declared type of its parameter
CallerPlainCall ==
    /\ Ran
    /\ DirectCall # None
    /\ DirectCall[1].name \in DOMAIN last.pre.functions
    /\ LET function == last.pre.functions[DirectCall[1].name]
       IN /\ Len(DirectCall[1].arguments) = Len(function.parameters)
          /\ Len(function.body) > 0
          /\ \A i \in 1..Len(function.parameters) :
                 /\ PlainArgument(DirectCall[1].arguments[i], <<>>)
                 /\ C18_Compatible(function.parameters[i].param_type,
                                   PlainValue(DirectCall[1].arguments[i]))

\* the method call of the last statement has a plain receiver and an
\* argument that reads this, which the caller has not bound
ReadsThisOfCaller ==
    /\ ReceiverCall
    /\ PlainValue(last.statement.expr.object).kind = "Object"
    /\ \E i \in 1..Len(last.statement.expr.arguments) :
           last.statement.expr.arguments[i] = Id("this")
    /\ \A i \in 1..Len(last.statement.expr.arguments) :
           PlainArgument(last.statement.expr.arguments[i], <<>>)
               \/ last.statement.expr.arguments[i] = Id("this")
    /\ "this" \notin DOMAIN last.pre.variables

\* C29: every argument of a call is evaluated against the bindings of the
\* caller as they were before the call: the body of a function starts with
\* each parameter bound to the value its argument has in the caller, however
\* the parameters before it are named, and an argument of a method call that
\* reads this reads the this of the caller, so that it is the
\* UndefinedVariable error when the caller has none.
C29_ArgumentsSeeCallerBindings ==
    /\ CallerPlainCall =>
           LET call == DirectCall[1]
               function == last.pre.functions[call.name]
           IN /\ Len(last.calls) > 0
              /\ last.calls[Len(last.calls)].call = call
              /\ last.calls[Len(last.calls)].block > 0
              /\ FirstSeen(last.calls[Len(last.calls)].block) =
                     Some(BoundUpTo(function.parameters, call.arguments,
                                    Len(function.parameters)))
    /\ ReadsThisOfCaller => FailedWith(UndefinedVariable)

----------------------------------------------------------------------------
(* Arithmetic at the ends of the range                                      *)

\* Add, Subtract, Multiply or Divide was applied to two Integers, the
\* divisor of Divide not being 0
IntegerArithmetic ==
    /\ Applied
    /\ opcall.operator \in {"Add", "Subtract", "Multiply", "Divide"}
    /\ opcall.left.kind = "Integer"
    /\ opcall.right.kind = "Integer"
    /\ opcall.operator = "Divide" => opcall.right.n # 0

\* C30: Add, Subtract, Multiply and Divide by a divisor other than 0, on any
\* two Integers, yield an Integer or a runtime error value and never crash
\* the host, also when the result is out of the range of the Integers.
C30_ArithmeticNeverCrashes ==
    IntegerArithmetic =>
        \/ opcall.st = "ok" /\ opcall.val.kind = "Integer"
                            /\ opcall.val.n \in IntMin..IntMax
        \/ opcall.st = "err"

============================================================================
